---- MODULE Spec2Model ----
(***************************************************************************)
(* Branch-addressable conversation store of chat_ui.                      *)
(*                                                                         *)
(*   - FileConversationStore (services/file_conversation_store.py): one   *)
(*     JSON record per branch key, plus metadata.json holding the         *)
(*     current-branch pointer.                                             *)
(*   - ConversationStore (services/conversation_store.py): one SQLite     *)
(*     table of message rows (position, version, parent_message_id) and   *)
(*     an active_versions override map on the conversation row.           *)
(*                                                                         *)
(* One conversation is modelled; before create_conversation has run every *)
(* operation sees a missing conversation.                                  *)
(***************************************************************************)
EXTENDS Integers, Sequences, FiniteSets, TLC

\* ------------------------------------------------------------------ bounds
\* largest sibling tag a caller passes in a branch array
MaxTag == 1
\* longest branch array a caller passes
MaxDepth == 2
\* message ids (uuid4 values) the file store hands out in one run
MaxIds == 3
\* message ids the table store hands out in one run
MaxRows == 3
\* largest position / user-message index a caller passes
MaxPos == 1
MaxEvents == 3
MaxChunks == 2

\* ------------------------------------------------------------------ inputs
Roles == {"user", "assistant"}
Contents == {"a", "b"}

RECURSIVE SeqsUpTo(_, _)
SeqsUpTo(S, n) ==
    IF n = 0 THEN {<<>>}
    ELSE LET shorter == SeqsUpTo(S, n - 1)
         IN  shorter \cup {Append(s, x) : s \in {t \in shorter : Len(t) = n - 1}, x \in S}

\* branch arrays a caller may pass (the empty array included)
BranchInputs == SeqsUpTo(0..MaxTag, MaxDepth)
\* an optional branch argument: <<>> is None, <<b>> is the array b
OptBranchInputs == {<<>>} \cup {<<b>> : b \in BranchInputs}

\* ------------------------------------------------------------- variables
VARIABLES
    convExists,     \* file store: metadata.json of the conversation exists
    current_branch, \* file store: metadata["current_branch"]
    files,          \* file store: branch filename -> message list
    fNextId,        \* file store: next fresh message id
    tConvExists,    \* table store: the conversations row exists
    rows,           \* table store: the message rows of the conversation
    active_versions,\* table store: conversations.active_versions (JSON object)
    tNextId,        \* table store: next fresh message id
    ret,            \* what the last file-store call returned
    tret,           \* what the last table-store call returned
    pc,             \* per request task: where its table store call stands
    pending,        \* per request task: the arguments and locals of that call
    streams,        \* stream registry: conversation id -> StreamState
    set_events,     \* the asyncio.Event objects whose flag is set
    evNext,         \* next fresh asyncio.Event object
    steer_contexts, \* stream registry: conversation id -> SteerContext
    sret,           \* what the last registry call returned
    handlers,       \* per stream request: the locals of its event_generator
    key,            \* branch naming: a path, its filename and what is read back
    search,         \* search: the conversations, the query and what was returned
    sessions,       \* warm pool: conversation id -> WarmSession
    session_order,  \* warm pool: the ids in the order the dict iterates them
    now,            \* the clock time.time() reads
    pret,           \* what the last warm pool call returned
    m_sessions,     \* session manager: the ids that have a client session
    m_locks,        \* session manager: conversation id -> lock object
    m_last_activity,\* session manager: conversation id -> timestamp
    lock_next,      \* the identity the next asyncio.Lock() object gets
    held,           \* the lock objects that are acquired
    tasks           \* per task: where it is in `async with get_lock(id)`

fvars == <<convExists, current_branch, files, fNextId, ret>>
tvars == <<tConvExists, rows, active_versions, tNextId, tret>>
cvars == <<pc, pending>>
svars == <<streams, set_events, evNext, steer_contexts, sret>>
hvars == <<handlers>>
kvars == <<key>>
qvars == <<search>>
\* the components no store, registry or handler operation touches
pvars == <<sessions, session_order, now, pret>>
mvars == <<m_sessions, m_locks, m_last_activity, lock_next, held, tasks>>
xvars == <<kvars, qvars, pvars, mvars>>
vars == <<convExists, current_branch, files, fNextId, ret,
          tConvExists, rows, active_versions, tNextId, tret, pc, pending,
          streams, set_events, evNext, steer_contexts, sret, handlers, key, search, sessions, session_order, now, pret,
          m_sessions, m_locks, m_last_activity, lock_next, held, tasks>>
\* what an operation of one component leaves alone
NotFile == <<tvars, cvars, svars, hvars, xvars>>
NotTable == <<fvars, cvars, svars, hvars, xvars>>
NotStores == <<cvars, svars, hvars, xvars>>
NotRegistry == <<fvars, tvars, cvars, hvars, xvars>>
NotNaming == <<fvars, tvars, cvars, svars, hvars, qvars, pvars, mvars>>
NotSearch == <<fvars, tvars, cvars, svars, hvars, kvars, pvars, mvars>>
NotPool == <<fvars, tvars, cvars, svars, hvars, kvars, qvars, mvars>>
NotManager == <<fvars, tvars, cvars, svars, hvars, kvars, qvars, sessions, session_order,
               pret>>

\* ---------------------------------------------------- text conversions
DigitChars == <<"0", "1", "2", "3", "4", "5", "6", "7", "8", "9">>

\* str(n) for n >= 0, as a sequence of characters
RECURSIVE IntToStr(_)
IntToStr(n) ==
    IF n < 10 THEN <<DigitChars[n + 1]>>
    ELSE IntToStr(n \div 10) \o <<DigitChars[(n % 10) + 1]>>

DigitVal(c) == CHOOSE d \in 0..9 : DigitChars[d + 1] = c

\* int(s) for a sequence of digit characters
RECURSIVE StrToInt(_)
StrToInt(s) ==
    IF Len(s) = 0 THEN 0
    ELSE 10 * StrToInt(SubSeq(s, 1, Len(s) - 1)) + DigitVal(s[Len(s)])

\* sep.join(parts)
RECURSIVE Join(_, _)
Join(parts, sep) ==
    IF Len(parts) = 0 THEN <<>>
    ELSE IF Len(parts) = 1 THEN parts[1]
    ELSE parts[1] \o <<sep>> \o Join(Tail(parts), sep)

\* s.split(sep)
RECURSIVE SplitFrom(_, _, _)
SplitFrom(s, sep, acc) ==
    IF Len(s) = 0 THEN <<acc>>
    ELSE IF Head(s) = sep THEN <<acc>> \o SplitFrom(Tail(s), sep, <<>>)
    ELSE SplitFrom(Tail(s), sep, Append(acc, Head(s)))

Split(s, sep) == SplitFrom(s, sep, <<>>)

\* --------------------------------------------- branch naming utilities
\* variant: trailing zeros are kept
StripTrailingZeros_keep(branch) == branch

\* while len(branch) > 1 and branch[-1] == 0: branch = branch[:-1]
RECURSIVE StripTrailingZeros(_)
StripTrailingZeros(branch) ==
    IF Len(branch) > 1 /\ branch[Len(branch)] = 0
    THEN StripTrailingZeros(SubSeq(branch, 1, Len(branch) - 1))
    ELSE branch

\* the suffix ".json" is one token of the filename
branch_array_to_filename(branch) ==
    IF Len(branch) = 0 THEN <<"0", ".json">>
    ELSE LET b == StripTrailingZeros(branch)
         IN  Join([i \in 1..Len(b) |-> IntToStr(b[i])], "_") \o <<".json">>

filename_to_branch_array(filename) ==
    LET name == SelectSeq(filename, LAMBDA c : c # ".json")
    IN  IF Len(name) = 0 THEN <<0>>
        ELSE LET parts == Split(name, "_")
             IN  [i \in 1..Len(parts) |-> StrToInt(parts[i])]

extend_branch_array(branch, length) ==
    IF Len(branch) >= length THEN SubSeq(branch, 1, length)
    ELSE branch \o [i \in 1..(length - Len(branch)) |-> 0]

get_branch_prefix(branch, length) ==
    SubSeq(extend_branch_array(branch, length), 1, length)

\* _list_branch_files: the branch records of the conversation
list_branch_files(fs) == DOMAIN fs

\* ------------------------------------------------------- return values
\* op: the call; ok: it succeeded; branch, messages, num, total: what it returned;
\* streaming: the streaming argument of an update_message_content call;
\* args: the branch, index and direction arguments of a navigation call
NoRet == [op |-> "none", ok |-> FALSE, err |-> "", branch |-> <<>>,
          messages |-> <<>>, num |-> 0, total |-> 0, streaming |-> FALSE,
          args |-> <<>>]

Message(id, role, content) == [id |-> id, role |-> role, content |-> content]

\* ------------------------------------------------ file store: helpers
\* the sibling tags at user_msg_index among the records sharing the prefix
used_numbers(fs, prefix, user_msg_index) ==
    {extend_branch_array(filename_to_branch_array(f), user_msg_index + 1)[user_msg_index + 1] :
        f \in {g \in list_branch_files(fs) :
                 extend_branch_array(filename_to_branch_array(g), user_msg_index) = prefix}}

SetMax(S) == CHOOSE x \in S : \A y \in S : y <= x

\* variant: one past the largest used tag
next_available_max(n, used) == IF used = {} THEN n ELSE SetMax(used) + 1

\* variant: the number of used tags
next_available_len(n, used) == Cardinality(used)

\* while new_branch_num in used_numbers: new_branch_num += 1
RECURSIVE next_available(_, _)
next_available(n, used) ==
    IF n \in used THEN next_available(n + 1, used) ELSE n

\* variant: a user message that is not on the branch is taken to be at 0
find_edit_position_zero(messages, user_msg_index, i, user_count) ==
    LET users == {k \in 1..Len(messages) : messages[k].role = "user"}
        matching == {k \in users :
                        Cardinality({j \in users : j < k}) = user_msg_index}
    IN  IF matching = {} THEN 0 ELSE (CHOOSE k \in matching : TRUE) - 1

\* 0-based position of the user message number user_msg_index, or -1 (None)
RECURSIVE find_edit_position(_, _, _, _)
find_edit_position(messages, user_msg_index, i, user_count) ==
    IF i > Len(messages) THEN -1
    ELSE IF messages[i].role = "user"
         THEN IF user_count = user_msg_index THEN i - 1
              ELSE find_edit_position(messages, user_msg_index, i + 1, user_count + 1)
         ELSE find_edit_position(messages, user_msg_index, i + 1, user_count)

RECURSIVE SortedSeq(_)
SortedSeq(S) ==
    IF S = {} THEN <<>>
    ELSE LET least == CHOOSE x \in S : \A y \in S : x <= y
         IN  <<least>> \o SortedSeq(S \ {least})

IndexIn(s, v) == CHOOSE i \in 1..Len(s) : s[i] = v

\* variant: current_version is the 0-based index
get_version_info_index(fs, branch, user_msg_index) ==
    LET prefix == extend_branch_array(branch, user_msg_index)
        current_value == extend_branch_array(branch, user_msg_index + 1)[user_msg_index + 1]
        branch_values == used_numbers(fs, prefix, user_msg_index)
    IN  IF branch_values = {}
        THEN [current_version |-> 1, total_versions |-> 1, versions |-> <<0>>]
        ELSE LET sorted_values == SortedSeq(branch_values)
                 current_idx == IF current_value \in branch_values
                                THEN IndexIn(sorted_values, current_value) - 1
                                ELSE 0
             IN  [current_version |-> current_idx,
                  total_versions |-> Len(sorted_values),
                  versions |-> sorted_values]

get_version_info(fs, branch, user_msg_index) ==
    LET prefix == extend_branch_array(branch, user_msg_index)
        current_value == extend_branch_array(branch, user_msg_index + 1)[user_msg_index + 1]
        branch_values == used_numbers(fs, prefix, user_msg_index)
    IN  IF branch_values = {}
        THEN [current_version |-> 1, total_versions |-> 1, versions |-> <<0>>]
        ELSE LET sorted_values == SortedSeq(branch_values)
                 current_idx == IF current_value \in branch_values
                                THEN IndexIn(sorted_values, current_value) - 1
                                ELSE 0
             IN  [current_version |-> current_idx + 1,
                  total_versions |-> Len(sorted_values),
                  versions |-> sorted_values]

UserCountBefore(messages, i) ==
    Cardinality({j \in 1..(i - 1) : messages[j].role = "user"})

add_version_info(fs, branch, messages) ==
    [i \in 1..Len(messages) |->
        IF messages[i].role = "user"
        THEN LET vi == get_version_info(fs, branch, UserCountBefore(messages, i))
             IN  [id |-> messages[i].id, role |-> messages[i].role,
                  content |-> messages[i].content, position |-> i - 1,
                  current_version |-> vi.current_version,
                  total_versions |-> vi.total_versions]
        ELSE [id |-> messages[i].id, role |-> messages[i].role,
              content |-> messages[i].content, position |-> i - 1,
              current_version |-> 1, total_versions |-> 1]]

\* variant: a read without a branch reads the root branch
get_conversation_messages_root(fs, cur, optBranch) ==
    LET branch == IF optBranch = <<>> THEN <<0>> ELSE optBranch[1]
        fname == branch_array_to_filename(branch)
        messages == IF fname \in DOMAIN fs THEN fs[fname] ELSE <<>>
    IN  add_version_info(fs, branch, messages)

\* the messages get_conversation returns for a branch (None: current_branch)
get_conversation_messages(fs, cur, optBranch) ==
    LET branch == IF optBranch = <<>> THEN cur ELSE optBranch[1]
        fname == branch_array_to_filename(branch)
        messages == IF fname \in DOMAIN fs THEN fs[fname] ELSE <<>>
    IN  add_version_info(fs, branch, messages)

\* create_branch: the messages before the edit position, then the edited one
branch_messages(messages, edit_position, edited) ==
    SubSeq(messages, 1, edit_position) \o <<edited>>

\* variant: the retried message is kept and the new one appended after it
retry_messages_keep(messages, position, new_message) ==
    Append(SubSeq(messages, 1, position + 1), new_message)

\* retry_assistant_message: messages[:position] with the new message appended
retry_messages(messages, position, new_message) ==
    Append(SubSeq(messages, 1, position), new_message)

\* variant: the message at the position is kept
truncate_messages_incl(messages, position) == SubSeq(messages, 1, position + 1)

\* delete_messages_from: messages[:position]
truncate_messages(messages, position) == SubSeq(messages, 1, position)

PutFile(fs, fname, messages) ==
    [f \in DOMAIN fs \cup {fname} |-> IF f = fname THEN messages ELSE fs[f]]

\* -------------------------------------------- file store: operations
F_create_conversation ==
    /\ ~convExists
    /\ convExists' = TRUE
    /\ current_branch' = <<0>>
    /\ files' = PutFile(files, branch_array_to_filename(<<0>>), <<>>)
    /\ ret' = [NoRet EXCEPT !.op = "create_conversation", !.ok = TRUE,
                            !.branch = <<0>>]
    /\ UNCHANGED fNextId

\* variant: the branch that was read becomes the current branch
F_get_conversation_setptr(optBranch) ==
    /\ convExists
    /\ ret' = [NoRet EXCEPT
                  !.op = "get_conversation", !.ok = TRUE,
                  !.branch = IF optBranch = <<>> THEN current_branch ELSE optBranch[1],
                  !.messages = get_conversation_messages(files, current_branch, optBranch)]
    /\ current_branch' = IF optBranch = <<>> THEN current_branch ELSE optBranch[1]
    /\ UNCHANGED <<convExists, files, fNextId>>

F_get_conversation(optBranch) ==
    /\ IF ~convExists
       THEN ret' = [NoRet EXCEPT !.op = "get_conversation", !.err = "None"]
       ELSE ret' = [NoRet EXCEPT
                      !.op = "get_conversation", !.ok = TRUE,
                      !.branch = IF optBranch = <<>> THEN current_branch
                                 ELSE optBranch[1],
                      !.messages = get_conversation_messages(files, current_branch, optBranch)]
    /\ UNCHANGED <<convExists, current_branch, files, fNextId>>

F_add_message(role, content, optBranch) ==
    IF ~convExists
    THEN /\ ret' = [NoRet EXCEPT !.op = "add_message", !.err = "not found"]
         /\ UNCHANGED <<convExists, current_branch, files, fNextId>>
    ELSE LET branch == IF optBranch = <<>> THEN current_branch ELSE optBranch[1]
             fname == branch_array_to_filename(branch)
             old == IF fname \in DOMAIN files THEN files[fname] ELSE <<>>
             message == Message(fNextId, role, content)
         IN  /\ fNextId <= MaxIds
             /\ files' = PutFile(files, fname, Append(old, message))
             /\ fNextId' = fNextId + 1
             /\ ret' = [NoRet EXCEPT !.op = "add_message", !.ok = TRUE, !.branch = branch,
                                     !.messages = <<message>>, !.num = Len(old),
                                     !.total = 1]
             /\ UNCHANGED <<convExists, current_branch>>

F_create_branch(cur, user_msg_index, new_content) ==
    LET fname == branch_array_to_filename(cur)
        messages == files[fname]
        edit_position == find_edit_position(messages, user_msg_index, 1, 0)
        prefix == extend_branch_array(cur, user_msg_index)
        used == used_numbers(files, prefix, user_msg_index)
        new_branch_num == next_available(0, used)
        new_branch == prefix \o <<new_branch_num>>
        edited == Message(fNextId, "user", new_content)
        new_messages == branch_messages(messages, edit_position, edited)
        fail(e) == /\ ret' = [NoRet EXCEPT !.op = "create_branch", !.err = e]
                   /\ UNCHANGED <<convExists, current_branch, files, fNextId>>
    IN  IF fname \notin DOMAIN files THEN fail("Branch not found")
        ELSE IF edit_position = -1 THEN fail("User message not found")
        ELSE /\ fNextId <= MaxIds
             /\ files' = PutFile(files, branch_array_to_filename(new_branch), new_messages)
             /\ current_branch' = new_branch
             /\ fNextId' = fNextId + 1
             /\ ret' = [NoRet EXCEPT !.op = "create_branch", !.ok = TRUE,
                                     !.branch = new_branch, !.messages = <<edited>>,
                                     !.num = edit_position,
                                     !.total = Cardinality(used) + 1]
             /\ UNCHANGED convExists

\* variant: the pointer is updated before the record is written
interrupted_create_branch_pointer_first(fs, pointer, new_branch, new_messages) ==
    [files |-> fs, current_branch |-> new_branch]

\* what is stored when create_branch fails after the write of the new record
\* and before the update of the metadata
interrupted_create_branch(fs, pointer, new_branch, new_messages) ==
    [files |-> PutFile(fs, branch_array_to_filename(new_branch), new_messages),
     current_branch |-> pointer]

\* create_branch that fails between its two writes
F_create_branch_interrupted(cur, user_msg_index, new_content) ==
    LET fname == branch_array_to_filename(cur)
        messages == files[fname]
        edit_position == find_edit_position(messages, user_msg_index, 1, 0)
        prefix == extend_branch_array(cur, user_msg_index)
        used == used_numbers(files, prefix, user_msg_index)
        new_branch == prefix \o <<next_available(0, used)>>
        edited == Message(fNextId, "user", new_content)
        stored == interrupted_create_branch(
                      files, current_branch, new_branch,
                      branch_messages(messages, edit_position, edited))
    IN  /\ fname \in DOMAIN files
        /\ edit_position # -1
        /\ fNextId <= MaxIds
        /\ files' = stored.files
        /\ current_branch' = stored.current_branch
        /\ fNextId' = fNextId + 1
        /\ ret' = [NoRet EXCEPT !.op = "create_branch", !.err = "interrupted",
                                !.branch = new_branch]
        /\ UNCHANGED convExists

\* variant: the content of every message of the branch is replaced
with_content_all(messages, message_id, content) ==
    [i \in 1..Len(messages) |-> [messages[i] EXCEPT !.content = content]]

\* the messages with the content of the first message carrying message_id replaced
RECURSIVE with_content(_, _, _)
with_content(messages, message_id, content) ==
    IF messages = <<>> THEN <<>>
    ELSE IF Head(messages).id = message_id
         THEN <<[Head(messages) EXCEPT !.content = content]>> \o Tail(messages)
         ELSE <<Head(messages)>> \o with_content(Tail(messages), message_id, content)

HasMessage(messages, message_id) ==
    \E i \in 1..Len(messages) : messages[i].id = message_id

\* the streaming argument is accepted and not used: nothing records whether
\* a message is finalized and the content is written in every case
F_update_message_content(message_id, content, optBranch, streaming) ==
    LET branch == IF optBranch = <<>> THEN current_branch ELSE optBranch[1]
        fname == branch_array_to_filename(branch)
        found == /\ convExists
                 /\ fname \in DOMAIN files
                 /\ HasMessage(files[fname], message_id)
    IN  /\ files' = IF found
                    THEN PutFile(files, fname, with_content(files[fname], message_id, content))
                    ELSE files
        /\ ret' = [NoRet EXCEPT !.op = "update_message_content", !.ok = found,
                                !.num = message_id, !.streaming = streaming]
        /\ UNCHANGED <<convExists, current_branch, fNextId>>

F_retry_assistant_message(branch, position, new_content) ==
    LET fname == branch_array_to_filename(branch)
        messages == files[fname]
        new_message == Message(fNextId, "assistant", new_content)
        fail(e) == /\ ret' = [NoRet EXCEPT !.op = "retry_assistant_message", !.err = e]
                   /\ UNCHANGED <<convExists, current_branch, files, fNextId>>
    IN  IF fname \notin DOMAIN files THEN fail("Branch not found")
        ELSE IF position >= Len(messages) THEN fail("out of range")
        ELSE /\ fNextId <= MaxIds
             /\ files' = PutFile(files, fname, retry_messages(messages, position, new_message))
             /\ fNextId' = fNextId + 1
             /\ ret' = [NoRet EXCEPT !.op = "retry_assistant_message", !.ok = TRUE,
                                     !.branch = branch, !.messages = <<new_message>>,
                                     !.num = position]
             /\ UNCHANGED <<convExists, current_branch>>

F_delete_messages_from(position, optBranch) ==
    LET branch == IF optBranch = <<>> THEN current_branch ELSE optBranch[1]
        fname == branch_array_to_filename(branch)
        messages == files[fname]
        result(ok) == ret' = [NoRet EXCEPT !.op = "delete_messages_from", !.ok = ok]
    IN  IF ~convExists \/ fname \notin DOMAIN files \/ position >= Len(messages)
        THEN /\ result(FALSE)
             /\ UNCHANGED <<convExists, current_branch, files, fNextId>>
        ELSE /\ files' = PutFile(files, fname, truncate_messages(messages, position))
             /\ result(TRUE)
             /\ UNCHANGED <<convExists, current_branch, fNextId>>


\* --------------------------------------------------- table store: rows
\* parent_message_id NULL / Python None (message ids start at 1)
NullId == 0

Row(id, role, content, position, version, parent) ==
    [id |-> id, role |-> role, content |-> content, position |-> position,
     version |-> version, parent |-> parent]

\* id, streaming: the message id and the streaming argument of an
\* update_message_content call
NoTRet == [op |-> "none", ok |-> FALSE, branch |-> <<>>, messages |-> <<>>,
           position |-> 0, version |-> 0, parent |-> NullId,
           id |-> NullId, streaming |-> FALSE]

RowsAt(rs, pos) == {m \in rs : m.position = pos}

MaxVersion(rs) == CHOOSE v \in {m.version : m \in rs} : \A m \in rs : m.version <= v

\* the row SQLite reads the bare columns from in SELECT MAX(version), ...
MaxVersionRow(rs) == CHOOSE m \in rs : m.version = MaxVersion(rs)

\* active_versions.get(str(pos)); 0 stands for None
ActiveVer(av, pos) == IF IntToStr(pos) \in DOMAIN av THEN av[IntToStr(pos)] ELSE 0

\* active_versions[str(position)] = version
SetActive(av, pos, version) ==
    [k \in DOMAIN av \cup {IntToStr(pos)} |->
        IF k = IntToStr(pos) THEN version ELSE av[k]]

\* variant: the keys at and after the position are removed
clear_after_incl(av, pos) ==
    [k \in {j \in DOMAIN av : ~(StrToInt(j) >= pos)} |-> av[k]]

\* del active_versions[k] for every key with int(k) > position
clear_after(av, pos) ==
    [k \in {j \in DOMAIN av : ~(StrToInt(j) > pos)} |-> av[k]]

\* variant: the parent filter is skipped
matching_rows_all(candidates, pos, current_parent_id, previous_selected_version) ==
    candidates

\* the candidates the walk keeps at a position
matching_rows(candidates, pos, current_parent_id, previous_selected_version) ==
    IF pos = 0 THEN candidates
    ELSE LET by_parent == {m \in candidates : m.parent = current_parent_id}
             version_match ==
                 IF previous_selected_version # 0
                 THEN {m \in candidates : m.version = previous_selected_version}
                 ELSE {}
         IN  IF by_parent # {} THEN by_parent
             ELSE IF version_match # {} THEN version_match
             ELSE candidates

\* the requested version if a matching row has it, else the latest
select_row(matching, active_ver) ==
    IF active_ver # 0 /\ \E m \in matching : m.version = active_ver
    THEN CHOOSE m \in matching : m.version = active_ver
    ELSE MaxVersionRow(matching)

WithVersionInfo(selected, candidates) ==
    [id |-> selected.id, role |-> selected.role, content |-> selected.content,
     position |-> selected.position, version |-> selected.version,
     parent |-> selected.parent,
     total_versions |-> Cardinality({m \in candidates : m.parent = selected.parent}),
     current_version |-> selected.version]

RECURSIVE walk_chain(_, _, _, _, _, _)
walk_chain(rs, av, pos, max_position, current_parent_id, previous_selected_version) ==
    IF pos > max_position THEN <<>>
    ELSE LET candidates == RowsAt(rs, pos)
         IN  IF candidates = {}
             THEN walk_chain(rs, av, pos + 1, max_position, current_parent_id,
                             previous_selected_version)
             ELSE LET matching == matching_rows(candidates, pos, current_parent_id,
                                                previous_selected_version)
                      selected == select_row(matching, ActiveVer(av, pos))
                  IN  <<WithVersionInfo(selected, candidates)>> \o
                      walk_chain(rs, av, pos + 1, max_position, selected.id,
                                 selected.version)

MaxPosition(rs) == CHOOSE p \in {m.position : m \in rs} : \A m \in rs : m.position <= p

\* the active messages get_conversation returns
resolve_chain(rs, av) ==
    IF rs = {} THEN <<>>
    ELSE walk_chain(rs, av, 0, MaxPosition(rs), NullId, 0)

\* get_messages_up_to: the same walk over the rows below a position
messages_up_to(rs, av, position) ==
    resolve_chain({m \in rs : m.position < position}, av)

\* ------------------------------------------- table store: operations
T_create_conversation ==
    /\ ~tConvExists
    /\ tConvExists' = TRUE
    /\ active_versions' = <<>>
    /\ tret' = [NoTRet EXCEPT !.op = "create_conversation", !.ok = TRUE]
    /\ UNCHANGED <<rows, tNextId>>

T_get_conversation(optBranch) ==
    /\ IF ~tConvExists
       THEN tret' = [NoTRet EXCEPT !.op = "get_conversation"]
       ELSE tret' = [NoTRet EXCEPT !.op = "get_conversation", !.ok = TRUE,
                                   !.messages = resolve_chain(rows, active_versions)]
    /\ UNCHANGED <<tConvExists, rows, active_versions, tNextId>>

\* position = MAX(position) + 1, or 0 when the conversation has no row
next_position(rs) == IF rs = {} THEN 0 ELSE MaxPosition(rs) + 1

T_add_message(role, content, parent_message_id) ==
    LET position == next_position(rows)
        row == Row(tNextId, role, content, position, 1, parent_message_id)
    IN  /\ tConvExists
        /\ tNextId <= MaxRows
        /\ rows' = rows \cup {row}
        /\ tNextId' = tNextId + 1
        /\ tret' = [NoTRet EXCEPT !.op = "add_message", !.ok = TRUE,
                                  !.messages = <<row>>, !.position = position,
                                  !.version = 1, !.parent = parent_message_id]
        /\ UNCHANGED <<tConvExists, active_versions>>

\* UPDATE messages SET content = ? WHERE id = ?: the streaming argument
\* does not reach the statement
T_update_message_content(message_id, content, streaming) ==
    /\ rows' = {IF m.id = message_id THEN [m EXCEPT !.content = content] ELSE m :
                   m \in rows}
    /\ tret' = [NoTRet EXCEPT !.op = "update_message_content",
                              !.ok = (\E m \in rows : m.id = message_id),
                              !.id = message_id, !.streaming = streaming]
    /\ UNCHANGED <<tConvExists, active_versions, tNextId>>

\* the row edit_message inserts
edit_row(rs, id, position, new_content) ==
    LET at == RowsAt(rs, position)
    IN  IF at = {} THEN Row(id, "user", new_content, position, 1, NullId)
        ELSE Row(id, MaxVersionRow(at).role, new_content, position,
                 MaxVersion(at) + 1, MaxVersionRow(at).parent)

T_edit_effect(op, position, new_content, branch) ==
    LET row == edit_row(rows, tNextId, position, new_content)
    IN  /\ tConvExists
        /\ tNextId <= MaxRows
        /\ rows' = rows \cup {row}
        /\ tNextId' = tNextId + 1
        /\ active_versions' =
              clear_after(SetActive(active_versions, position, row.version), position)
        /\ tret' = [NoTRet EXCEPT !.op = op, !.ok = TRUE, !.messages = <<row>>,
                                  !.position = position, !.version = row.version,
                                  !.parent = row.parent,
                                  !.branch = Append(branch, row.version - 1)]
        /\ UNCHANGED tConvExists

T_edit_message(position, new_content) ==
    T_edit_effect("edit_message", position, new_content, <<>>)

\* the adapter: user messages are taken to sit at the even positions
T_create_branch(cur, user_msg_index, new_content) ==
    T_edit_effect("create_branch", user_msg_index * 2, new_content,
                  IF user_msg_index < Len(cur) THEN SubSeq(cur, 1, user_msg_index)
                  ELSE cur)

T_retry_message(position, new_content, parent_message_id) ==
    LET at == RowsAt(rows, position)
        new_version == IF at = {} THEN 1 ELSE MaxVersion(at) + 1
        actual_parent == IF parent_message_id # NullId THEN parent_message_id
                         ELSE IF at = {} THEN NullId ELSE MaxVersionRow(at).parent
        row == Row(tNextId, "assistant", new_content, position, new_version, actual_parent)
    IN  /\ tConvExists
        /\ tNextId <= MaxRows
        /\ rows' = rows \cup {row}
        /\ tNextId' = tNextId + 1
        /\ active_versions' = SetActive(active_versions, position, new_version)
        /\ tret' = [NoTRet EXCEPT !.op = "retry_message", !.ok = TRUE,
                                  !.messages = <<row>>, !.position = position,
                                  !.version = new_version, !.parent = actual_parent]
        /\ UNCHANGED tConvExists

T_switch_version(position, version) ==
    LET found == {m \in rows : m.position = position /\ m.version = version}
    IN  /\ tConvExists
        /\ IF found = {}
           THEN /\ tret' = [NoTRet EXCEPT !.op = "switch_version"]
                /\ UNCHANGED active_versions
           ELSE /\ active_versions' =
                     IF (CHOOSE m \in found : TRUE).role = "user"
                     THEN clear_after(SetActive(active_versions, position, version), position)
                     ELSE SetActive(active_versions, position, version)
                /\ tret' = [NoTRet EXCEPT !.op = "switch_version", !.ok = TRUE,
                                          !.position = position, !.version = version]
        /\ UNCHANGED <<tConvExists, rows, tNextId>>

T_delete_messages_from(position) ==
    IF ~tConvExists
    THEN /\ tret' = [NoTRet EXCEPT !.op = "delete_messages_from"]
         /\ UNCHANGED <<tConvExists, rows, active_versions, tNextId>>
    ELSE /\ rows' = {m \in rows : ~(m.position >= position)}
         /\ tret' = [NoTRet EXCEPT !.op = "delete_messages_from", !.ok = TRUE,
                                   !.position = position]
         /\ UNCHANGED <<tConvExists, active_versions, tNextId>>

\* ------------------------------------------------------- specifications
\* Python's order on lists: the first differing entry decides, and a proper
\* prefix is smaller
list_less(a, b) ==
    \/ \E i \in 1..Len(a) :
          /\ i <= Len(b)
          /\ a[i] < b[i]
          /\ \A j \in 1..(i - 1) : a[j] = b[j]
    \/ /\ Len(a) < Len(b)
       /\ \A j \in 1..Len(a) : a[j] = b[j]

\* variant: the index stops at the ends of the list
wrap_index_clamp(new_idx, n) ==
    IF new_idx < 0 THEN 0 ELSE IF new_idx >= n THEN n - 1 ELSE new_idx

\* new_idx < 0: len - 1; new_idx >= len: 0
wrap_index(new_idx, n) ==
    IF new_idx < 0 THEN n - 1 ELSE IF new_idx >= n THEN 0 ELSE new_idx

\* the branch arrays of the records whose first user_msg_index + 1 entries,
\* zero padded, are new_branch
snap_candidates(fs, new_branch, user_msg_index) ==
    {filename_to_branch_array(f) : f \in
        {g \in list_branch_files(fs) :
            extend_branch_array(filename_to_branch_array(g), user_msg_index + 1)
                = new_branch}}

\* variant: the largest candidate is taken
best_match_highest(candidates) ==
    CHOOSE m \in candidates : \A o \in candidates : o = m \/ list_less(o, m)

\* if file_branch < best_match: best_match = file_branch
best_match(candidates) ==
    CHOOSE m \in candidates : \A o \in candidates : o = m \/ list_less(m, o)

F_switch_branch(cur, user_msg_index, direction) ==
    LET prefix == extend_branch_array(cur, user_msg_index)
        current_value == extend_branch_array(cur, user_msg_index + 1)[user_msg_index + 1]
        branch_values == used_numbers(files, prefix, user_msg_index)
        sorted_values == SortedSeq(branch_values)
        current_idx == IF current_value \in branch_values
                       THEN IndexIn(sorted_values, current_value) - 1
                       ELSE 0
        new_idx == wrap_index(current_idx + direction, Len(sorted_values))
        new_value == sorted_values[new_idx + 1]
        new_branch == prefix \o <<new_value>>
        candidates == snap_candidates(files, new_branch, user_msg_index)
    IN  IF branch_values = {}
        THEN /\ ret' = [NoRet EXCEPT !.op = "switch_branch", !.err = "None",
                                     !.args = <<cur, user_msg_index, direction>>]
             /\ UNCHANGED <<convExists, current_branch, files, fNextId>>
        ELSE /\ current_branch' = best_match(candidates)
             /\ ret' = [NoRet EXCEPT !.op = "switch_branch", !.ok = TRUE,
                                     !.branch = best_match(candidates),
                                     !.num = new_value,
                                     !.args = <<cur, user_msg_index, direction>>]
             /\ UNCHANGED <<convExists, files, fNextId>>

\* get_version_info: a read that reports current_version and total_versions
F_get_version_info(branch, user_msg_index) ==
    LET vi == get_version_info(files, branch, user_msg_index)
    IN  /\ ret' = [NoRet EXCEPT !.op = "get_version_info", !.ok = TRUE,
                                !.branch = branch,
                                !.args = <<branch, user_msg_index>>,
                                !.num = vi.current_version,
                                !.total = vi.total_versions]
        /\ UNCHANGED <<convExists, current_branch, files, fNextId>>

FInit ==
    /\ convExists = FALSE
    /\ current_branch = <<>>
    /\ files = <<>>
    /\ fNextId = 1
    /\ ret = NoRet

TInit ==
    /\ tConvExists = FALSE
    /\ rows = {}
    /\ active_versions = <<>>
    /\ tNextId = 1
    /\ tret = NoTRet


\* ------------------------------------------------------ stream registry
ConvIds == {"c1", "c2"}
StreamTypes == {"normal", "agent"}
Guidances == {"g1", "g2"}

\* start_stream's stop_event for a NORMAL stream: None
NoEvent == 0
\* absent SteerContext: None
NoContext == ""

NoSRet == [op |-> "none", id |-> "", ok |-> FALSE, event |-> NoEvent,
           streaming |-> FALSE, type |-> "", stoppable |-> FALSE, context |-> NoContext]

StreamState(stream_type, stop_event) == [stream_type |-> stream_type, stop_event |-> stop_event]

\* variant: an AGENT stream is handed the event object created before it
new_stop_event_reuse(stream_type, fresh) ==
    IF stream_type = "agent" THEN (IF fresh > 1 THEN fresh - 1 ELSE fresh) ELSE NoEvent

new_stop_event(stream_type, fresh) ==
    IF stream_type = "agent" THEN fresh ELSE NoEvent

S_start_stream(conversation_id, stream_type) ==
    LET stop_event == new_stop_event(stream_type, evNext)
    IN  /\ evNext <= MaxEvents
        /\ streams' = [c \in DOMAIN streams \cup {conversation_id} |->
                          IF c = conversation_id
                          THEN StreamState(stream_type, stop_event)
                          ELSE streams[c]]
        /\ evNext' = IF stop_event = NoEvent THEN evNext ELSE evNext + 1
        /\ sret' = [NoSRet EXCEPT !.op = "start_stream", !.id = conversation_id,
                                  !.ok = TRUE, !.event = stop_event]
        /\ UNCHANGED <<set_events, steer_contexts>>

\* variant: the entry is kept when the conversation is ended
streams_without_keep(ss, conversation_id) == ss

streams_without(ss, conversation_id) ==
    [c \in DOMAIN ss \ {conversation_id} |-> ss[c]]

\* variant: ending the stream also drops the conversation's steer context
S_end_stream_dropsteer(conversation_id) ==
    /\ streams' = IF conversation_id \in DOMAIN streams
                  THEN streams_without(streams, conversation_id)
                  ELSE streams
    /\ steer_contexts' = [c \in DOMAIN steer_contexts \ {conversation_id} |->
                             steer_contexts[c]]
    /\ sret' = [NoSRet EXCEPT !.op = "end_stream", !.id = conversation_id,
                              !.ok = (conversation_id \in DOMAIN streams)]
    /\ UNCHANGED <<set_events, evNext>>

S_end_stream(conversation_id) ==
    /\ streams' = IF conversation_id \in DOMAIN streams
                  THEN streams_without(streams, conversation_id)
                  ELSE streams
    /\ sret' = [NoSRet EXCEPT !.op = "end_stream", !.id = conversation_id,
                              !.ok = (conversation_id \in DOMAIN streams)]
    /\ UNCHANGED <<set_events, evNext, steer_contexts>>

is_streaming(ss, conversation_id) == conversation_id \in DOMAIN ss

S_is_streaming(conversation_id) ==
    /\ sret' = [NoSRet EXCEPT !.op = "is_streaming", !.id = conversation_id,
                              !.ok = TRUE,
                              !.streaming = is_streaming(streams, conversation_id)]
    /\ UNCHANGED <<streams, set_events, evNext, steer_contexts>>

get_status(ss, conversation_id) ==
    IF conversation_id \notin DOMAIN ss
    THEN [streaming |-> FALSE, type |-> "", stoppable |-> FALSE]
    ELSE [streaming |-> TRUE, type |-> ss[conversation_id].stream_type,
          stoppable |-> ss[conversation_id].stream_type = "agent"]

S_get_status(conversation_id) ==
    LET st == get_status(streams, conversation_id)
    IN  /\ sret' = [NoSRet EXCEPT !.op = "get_status", !.id = conversation_id,
                                  !.ok = TRUE, !.streaming = st.streaming,
                                  !.type = st.type, !.stoppable = st.stoppable]
        /\ UNCHANGED <<streams, set_events, evNext, steer_contexts>>

\* whether stop_stream signals: an AGENT entry that holds an event
\* variant: any registered stream can be signalled
can_stop_any(ss, conversation_id) ==
    conversation_id \in DOMAIN ss

can_stop(ss, conversation_id) ==
    /\ conversation_id \in DOMAIN ss
    /\ ss[conversation_id].stream_type = "agent"
    /\ ss[conversation_id].stop_event # NoEvent

S_stop_stream(conversation_id) ==
    /\ set_events' = IF can_stop(streams, conversation_id)
                     THEN set_events \cup ({streams[conversation_id].stop_event} \ {NoEvent})
                     ELSE set_events
    /\ sret' = [NoSRet EXCEPT !.op = "stop_stream", !.id = conversation_id,
                              !.ok = can_stop(streams, conversation_id)]
    /\ UNCHANGED <<streams, evNext, steer_contexts>>

S_set_steer_context(conversation_id, context) ==
    /\ steer_contexts' = [c \in DOMAIN steer_contexts \cup {conversation_id} |->
                             IF c = conversation_id THEN context ELSE steer_contexts[c]]
    /\ sret' = [NoSRet EXCEPT !.op = "set_steer_context", !.id = conversation_id,
                              !.ok = TRUE]
    /\ UNCHANGED <<streams, set_events, evNext>>

\* dict.get(conversation_id)
steer_lookup(sc, conversation_id) ==
    IF conversation_id \in DOMAIN sc THEN sc[conversation_id] ELSE NoContext

\* variant: the read removes the context it returns
steer_after_get_clear(sc, conversation_id) ==
    [c \in DOMAIN sc \ {conversation_id} |-> sc[c]]

\* the steer contexts after a get_steer_context: the read removes nothing
steer_after_get(sc, conversation_id) == sc

S_get_steer_context(conversation_id) ==
    /\ steer_contexts' = steer_after_get(steer_contexts, conversation_id)
    /\ sret' = [NoSRet EXCEPT !.op = "get_steer_context", !.id = conversation_id,
                              !.ok = TRUE,
                              !.context = steer_lookup(steer_contexts, conversation_id)]
    /\ UNCHANGED <<streams, set_events, evNext>>

S_clear_steer_context(conversation_id) ==
    /\ steer_contexts' = [c \in DOMAIN steer_contexts \ {conversation_id} |->
                             steer_contexts[c]]
    /\ sret' = [NoSRet EXCEPT !.op = "clear_steer_context", !.id = conversation_id,
                              !.ok = (conversation_id \in DOMAIN steer_contexts)]
    /\ UNCHANGED <<streams, set_events, evNext>>

SInit ==
    /\ streams = <<>>
    /\ set_events = {}
    /\ evNext = 1
    /\ steer_contexts = <<>>
    /\ sret = NoSRet


\* ------------------------------------------------------- stream handlers
\* The event_generator of a stream request. A handler runs from one
\* suspension point (a yield, or an await that can suspend) to the next in
\* one step; the awaits on the file store never suspend.
Handlers == {"h1", "h2"}

\* request.conversation_id and request.branch or [0]
HConv == "c1"
HBranch == <<0>>

\* the text of an upstream text event
Chunks == {"t"}

\* the text block appended to the content of a stopped response
StopMarker == "*[Response stopped by user]*"

\* chat.py writes a progress update every UpdatePeriod events
UpdatePeriod == 10

NoHandler == [pc |-> "idle", kind |-> "", stop_event |-> NoEvent, msg_id |-> NullId,
              acc |-> <<>>, received |-> 0, stopped |-> FALSE, steer |-> NoContext,
              ended |-> FALSE, saved |-> FALSE, error_event |-> FALSE,
              order |-> 0, steered |-> FALSE]

\* the place of a request that arrives now among the requests received so far
next_order(hs) ==
    1 + Cardinality({g \in DOMAIN hs : hs[g].pc # "idle"})

HInit == handlers = [h \in Handlers |-> NoHandler]

\* agent_chat.py: register the stream, then await the warm pool
H_start_agent(h) ==
    /\ handlers[h].pc = "idle"
    /\ S_start_stream(HConv, "agent")
    /\ handlers' = [handlers EXCEPT ![h] =
                       [@ EXCEPT !.pc = "registered", !.kind = "agent",
                                 !.stop_event = sret'.event,
                                 !.order = next_order(handlers)]]
    /\ UNCHANGED <<fvars, tvars, cvars, xvars>>

\* agent_chat.py: create the assistant message record; on failure the
\* generator yields an error event and returns
H_create_message(h) ==
    /\ handlers[h].pc = "registered"
    /\ F_add_message("assistant", <<>>, <<HBranch>>)
    /\ handlers' = [handlers EXCEPT ![h] =
                       IF ret'.ok
                       THEN [@ EXCEPT !.pc = "steer", !.msg_id = ret'.messages[1].id]
                       ELSE [@ EXCEPT !.pc = "returned", !.error_event = TRUE]]
    /\ UNCHANGED <<tvars, cvars, svars, xvars>>

\* variant: the context is left in place after it was read
steer_after_apply_keep(sc, conversation_id) == sc

\* the steer contexts once the handler has used the one it found
steer_after_apply(sc, conversation_id) ==
    [c \in DOMAIN sc \ {conversation_id} |-> sc[c]]

\* agent_chat.py: get_steer_context, and clear_steer_context when there is
\* one, with no suspension point in between
H_read_steer(h) ==
    LET steer_context == steer_lookup(steer_contexts, HConv)
    IN  /\ handlers[h].pc = "steer"
        /\ steer_contexts' = IF steer_context # NoContext
                             THEN steer_after_apply(steer_contexts, HConv)
                             ELSE steer_contexts
        /\ sret' = IF steer_context # NoContext
                   THEN [NoSRet EXCEPT !.op = "clear_steer_context", !.id = HConv,
                                       !.ok = TRUE]
                   ELSE [NoSRet EXCEPT !.op = "get_steer_context", !.id = HConv,
                                       !.ok = TRUE]
        /\ handlers' = [handlers EXCEPT ![h] =
                           [@ EXCEPT !.pc = "streaming", !.steer = steer_context]]
        /\ UNCHANGED <<streams, set_events, evNext, fvars, tvars, cvars, xvars>>

\* chat.py: register the stream and create the assistant message record; on
\* failure the generator yields an error event and returns
H_start_normal(h) ==
    /\ handlers[h].pc = "idle"
    /\ S_start_stream(HConv, "normal")
    /\ F_add_message("assistant", <<>>, <<HBranch>>)
    /\ handlers' = [handlers EXCEPT ![h] =
                       IF ret'.ok
                       THEN [@ EXCEPT !.pc = "streaming", !.kind = "normal",
                                      !.msg_id = ret'.messages[1].id,
                                      !.order = next_order(handlers)]
                       ELSE [@ EXCEPT !.pc = "returned", !.kind = "normal",
                                      !.error_event = TRUE,
                                      !.order = next_order(handlers)]]
    /\ UNCHANGED <<tvars, cvars, xvars>>

\* variant: the stop event is not looked at
stop_requested_never(hd) == FALSE

\* stop_event and stop_event.is_set()
stop_requested(hd) ==
    hd.stop_event # NoEvent /\ hd.stop_event \in set_events

\* one text event from upstream: an agent handler whose stop event is set
\* yields 'stopped' and leaves the loop, otherwise the event is forwarded
\* and accumulated; chat.py also writes a progress update every
\* UpdatePeriod events
H_event(h, chunk) ==
    LET hd == handlers[h]
        acc == Append(hd.acc, chunk)
    IN  /\ hd.pc = "streaming"
        /\ hd.received < MaxChunks
        /\ IF hd.kind = "agent" /\ stop_requested(hd)
           THEN /\ handlers' = [handlers EXCEPT ![h] =
                                   [@ EXCEPT !.received = @ + 1, !.stopped = TRUE,
                                             !.pc = "finishing"]]
                /\ UNCHANGED fvars
           ELSE /\ handlers' = [handlers EXCEPT ![h] =
                                   [@ EXCEPT !.received = @ + 1, !.acc = acc]]
                /\ IF hd.kind = "normal" /\ (hd.received + 1) % UpdatePeriod = 0
                   THEN F_update_message_content(hd.msg_id, acc, <<HBranch>>, TRUE)
                   ELSE UNCHANGED fvars
        /\ UNCHANGED <<tvars, cvars, svars, xvars>>

\* variant: the final content is written without what was accumulated last
final_content_short(hd) ==
    IF hd.acc = <<>> THEN <<>> ELSE SubSeq(hd.acc, 1, Len(hd.acc) - 1)

\* the content of the final write
final_content(hd) ==
    IF hd.stopped THEN Append(hd.acc, StopMarker) ELSE hd.acc

\* the final update_message_content, then end_stream in the finally clause;
\* agent_chat.py leaves streaming at its default, chat.py passes False
finish_effect(h) ==
    LET hd == handlers[h]
    IN  /\ F_update_message_content(hd.msg_id, final_content(hd), <<HBranch>>,
                                    hd.kind = "agent")
        /\ S_end_stream(HConv)
        /\ handlers' = [handlers EXCEPT ![h] =
                           [@ EXCEPT !.pc = "returned", !.ended = TRUE,
                                     !.saved = ret'.ok]]
        /\ UNCHANGED <<tvars, cvars, xvars>>

\* agent_chat.py, upstream is exhausted: the loop is left and the event
\* stream is closed with an await
H_upstream_end(h) ==
    /\ handlers[h].pc = "streaming"
    /\ handlers[h].kind = "agent"
    /\ handlers' = [handlers EXCEPT ![h] = [@ EXCEPT !.pc = "finishing"]]
    /\ UNCHANGED <<fvars, tvars, cvars, svars, xvars>>

\* agent_chat.py, after the loop was left by exhaustion or by a stop
H_finish(h) ==
    /\ handlers[h].pc = "finishing"
    /\ finish_effect(h)

\* chat.py, upstream is exhausted: the final write and end_stream follow
\* with no suspension point
H_complete_normal(h) ==
    /\ handlers[h].pc \in {"streaming", "upstream_failed"}
    /\ handlers[h].kind = "normal"
    /\ finish_effect(h)

\* variant: the exception is swallowed and no event is yielded
error_outcome_silent(hd) == [hd EXCEPT !.pc = "failed", !.ended = TRUE]

\* except Exception: an 'error' event is yielded; finally: end_stream
error_outcome(hd) ==
    [hd EXCEPT !.pc = "failed", !.ended = TRUE, !.error_event = TRUE]

\* agent_chat.py, the event stream raises: no final write is made
H_upstream_error(h) ==
    /\ handlers[h].pc = "streaming"
    /\ handlers[h].kind = "agent"
    /\ S_end_stream(HConv)
    /\ handlers' = [handlers EXCEPT ![h] = error_outcome(@)]
    /\ UNCHANGED <<fvars, tvars, cvars, xvars>>

\* chat.py: the API stream raises inside client.stream_message, which
\* yields an 'error' event and ends; the handler forwards the event
H_error_event(h) ==
    /\ handlers[h].pc = "streaming"
    /\ handlers[h].kind = "normal"
    /\ handlers' = [handlers EXCEPT ![h] =
                       [@ EXCEPT !.pc = "upstream_failed", !.error_event = TRUE]]
    /\ UNCHANGED <<fvars, tvars, cvars, svars, xvars>>

\* a handler that has called start_stream and has neither called end_stream
\* nor returned
Running(hd) ==
    hd.pc \in {"registered", "steer", "streaming", "finishing", "upstream_failed"}

\* a handler that has called start_stream and has yet to look for a steer
\* context
BeforeSteerRead(hd) == hd.pc \in {"registered", "steer"}

\* POST /api/agent-chat/steer: stop the active stream, save the guidance as
\* a user message on the current branch, store the steer context; steered
\* marks the handlers the request finds running before their look for a
\* steer context
E_steer(guidance) ==
    IF ~get_status(streams, HConv).streaming
    THEN /\ sret' = [NoSRet EXCEPT !.op = "get_status", !.id = HConv, !.ok = TRUE]
         /\ UNCHANGED <<streams, set_events, evNext, steer_contexts,
                        fvars, tvars, cvars, hvars, xvars>>
    ELSE /\ set_events' = IF can_stop(streams, HConv)
                          THEN set_events \cup {streams[HConv].stop_event}
                          ELSE set_events
         /\ F_add_message("user", <<guidance>>, <<>>)
         /\ steer_contexts' = [c \in DOMAIN steer_contexts \cup {HConv} |->
                                  IF c = HConv THEN guidance ELSE steer_contexts[c]]
         /\ sret' = [NoSRet EXCEPT !.op = "set_steer_context", !.id = HConv,
                                   !.ok = TRUE]
         /\ handlers' = [h \in Handlers |->
                            IF BeforeSteerRead(handlers[h])
                            THEN [handlers[h] EXCEPT !.steered = TRUE]
                            ELSE handlers[h]]
         /\ UNCHANGED <<streams, evNext, tvars, cvars, xvars>>

\* the request tasks that call the table store concurrently
Tasks == {"t1", "t2"}

NoPending == [role |-> "", content |-> "", parent |-> NullId, position |-> 0,
              version |-> 0, id |-> NullId]

CInit ==
    /\ pc = [t \in Tasks |-> "idle"]
    /\ pending = [t \in Tasks |-> NoPending]

\* ---------------------------------------------------------- warm pool
\* AgentPool(max_sessions, ttl_seconds) is constructed with small values
MaxSessions == 2
TtlSeconds == 2
MaxTime == 4
PoolIds == {"c1", "c2", "c3"}
NoId == ""

\* found: a session was returned; expired: the session was there and was
\* deleted as expired; evicted: the id deleted to make room
NoPRet == [op |-> "none", id |-> NoId, found |-> FALSE, expired |-> FALSE,
           evicted |-> NoId]

WarmSession(t) == [created_at |-> t, last_used |-> t]

PInit ==
    /\ sessions = <<>>
    /\ session_order = <<>>
    /\ now = 0
    /\ pret = NoPRet

sessions_without(ss, ids) == [c \in DOMAIN ss \ ids |-> ss[c]]

\* the iteration order of a dict after del of ids: the others keep their places
order_without(ord, ids) == SelectSeq(ord, LAMBDA c : c \notin ids)

\* the iteration order after self._sessions[id] = ...: a new key goes last, a
\* key that is present keeps its place
order_with(ord, id) ==
    IF \E i \in 1..Len(ord) : ord[i] = id THEN ord ELSE Append(ord, id)

\* _cleanup_stale_locked: now - session.last_used > ttl_seconds
stale(ss, t) == {c \in DOMAIN ss : t - ss[c].last_used > TtlSeconds}

cleanup_stale_locked(ss, t) == sessions_without(ss, stale(ss, t))

\* variant: the most recently used session
oldest_id_newest(ss, ord) ==
    LET least == {i \in 1..Len(ord) :
                     \A d \in DOMAIN ss : ss[d].last_used <= ss[ord[i]].last_used}
    IN  ord[CHOOSE i \in least : \A j \in least : i <= j]

\* min(keys, key=last_used): the first key in iteration order that no other is
\* older than
oldest_id(ss, ord) ==
    LET least == {i \in 1..Len(ord) :
                     \A d \in DOMAIN ss : ss[ord[i]].last_used <= ss[d].last_used}
    IN  ord[CHOOSE i \in least : \A j \in least : i <= j]

\* len(self._sessions) >= self._max_sessions
must_evict(ss) == Cardinality(DOMAIN ss) >= MaxSessions

P_warm_for_conversation(conversation_id) ==
    LET cleaned == cleanup_stale_locked(sessions, now)
        cleaned_order == order_without(session_order, stale(sessions, now))
        evicted == IF must_evict(cleaned)
                   THEN oldest_id(cleaned, cleaned_order) ELSE NoId
        kept == sessions_without(cleaned, {evicted})
    IN  /\ sessions' = [c \in DOMAIN kept \cup {conversation_id} |->
                           IF c = conversation_id THEN WarmSession(now)
                           ELSE kept[c]]
        /\ session_order' = order_with(order_without(cleaned_order, {evicted}),
                                       conversation_id)
        /\ pret' = [NoPRet EXCEPT !.op = "warm_for_conversation",
                                  !.id = conversation_id, !.found = TRUE,
                                  !.evicted = evicted]
        /\ UNCHANGED now

\* variant: validity is judged by the time since the last use
session_valid_by_use(session, t) == t - session.last_used < TtlSeconds

\* time.time() - session.created_at < self._ttl_seconds
session_valid(session, t) == t - session.created_at < TtlSeconds

P_get_warm_session(conversation_id) ==
    /\ IF conversation_id \in DOMAIN sessions
       THEN IF session_valid(sessions[conversation_id], now)
            THEN /\ sessions' = [sessions EXCEPT ![conversation_id].last_used = now]
                 /\ session_order' = session_order
                 /\ pret' = [NoPRet EXCEPT !.op = "get_warm_session",
                                           !.id = conversation_id, !.found = TRUE]
            ELSE /\ sessions' = sessions_without(sessions, {conversation_id})
                 /\ session_order' = order_without(session_order, {conversation_id})
                 /\ pret' = [NoPRet EXCEPT !.op = "get_warm_session",
                                           !.id = conversation_id,
                                           !.expired = TRUE]
       ELSE /\ sessions' = sessions
            /\ session_order' = session_order
            /\ pret' = [NoPRet EXCEPT !.op = "get_warm_session",
                                      !.id = conversation_id]
    /\ UNCHANGED now

P_invalidate_session(conversation_id) ==
    /\ sessions' = sessions_without(sessions, {conversation_id})
    /\ session_order' = order_without(session_order, {conversation_id})
    /\ pret' = [NoPRet EXCEPT !.op = "invalidate_session", !.id = conversation_id,
                              !.found = (conversation_id \in DOMAIN sessions)]
    /\ UNCHANGED now

P_cleanup_stale ==
    /\ sessions' = cleanup_stale_locked(sessions, now)
    /\ session_order' = order_without(session_order, stale(sessions, now))
    /\ pret' = [NoPRet EXCEPT !.op = "cleanup_stale"]
    /\ UNCHANGED now

\* time passes between two calls
P_tick ==
    /\ now < MaxTime
    /\ now' = now + 1
    /\ UNCHANGED <<sessions, session_order, pret>>

PoolWarm == \E c \in PoolIds : P_warm_for_conversation(c) /\ UNCHANGED NotPool
PoolGet == \E c \in PoolIds : P_get_warm_session(c) /\ UNCHANGED NotPool
PoolInvalidate == \E c \in PoolIds : P_invalidate_session(c) /\ UNCHANGED NotPool
PoolCleanup == P_cleanup_stale /\ UNCHANGED NotPool
PoolTick == P_tick /\ UNCHANGED NotPool

PoolNext ==
    \/ PoolWarm
    \/ PoolGet
    \/ PoolInvalidate
    \/ PoolCleanup
    \/ PoolTick

\* ---------------------------------------------------- session manager
\* AgentSessionManager(session_ttl_seconds) is constructed with a small value
SessionTtl == 2
MaxLocks == 4
ManagerIds == {"c1", "c2"}
NoLock == 0

\* a task that is not in a guarded section
IdleTask == [pc |-> "idle", id |-> NoId, lock |-> NoLock]

MInit ==
    /\ m_sessions = {}
    /\ m_locks = <<>>
    /\ m_last_activity = <<>>
    /\ lock_next = 1
    /\ held = {}
    /\ tasks = [t \in Tasks |-> IdleTask]

\* d[k] = v on a dict
dict_set(d, k, v) == [c \in DOMAIN d \cup {k} |-> IF c = k THEN v ELSE d[c]]

\* del d[k] for the keys that are present
dict_del(d, ks) == [c \in DOMAIN d \ ks |-> d[c]]

\* _cleanup_session of every id in ids
M_cleanup_sessions(ids) ==
    /\ m_sessions' = m_sessions \ ids
    /\ m_locks' = dict_del(m_locks, ids)
    /\ m_last_activity' = dict_del(m_last_activity, ids)

\* create_session: self._locks[conversation_id] = asyncio.Lock()
locks_after_create(locks, conversation_id, fresh) ==
    dict_set(locks, conversation_id, fresh)

M_create_session(conversation_id) ==
    /\ lock_next <= MaxLocks
    /\ m_sessions' = m_sessions \cup {conversation_id}
    /\ m_locks' = locks_after_create(
                      IF conversation_id \in m_sessions
                      THEN dict_del(m_locks, {conversation_id}) ELSE m_locks,
                      conversation_id, lock_next)
    /\ m_last_activity' = dict_set(m_last_activity, conversation_id, now)
    /\ lock_next' = lock_next + 1
    /\ UNCHANGED <<held, tasks, now>>

M_store_session(conversation_id) ==
    /\ lock_next <= MaxLocks
    /\ m_sessions' = m_sessions \cup {conversation_id}
    /\ IF conversation_id \notin DOMAIN m_locks
       THEN /\ m_locks' = dict_set(m_locks, conversation_id, lock_next)
            /\ lock_next' = lock_next + 1
       ELSE UNCHANGED <<m_locks, lock_next>>
    /\ m_last_activity' = dict_set(m_last_activity, conversation_id, now)
    /\ UNCHANGED <<held, tasks, now>>

\* a task evaluates get_lock(conversation_id) on its way into `async with`
M_get_lock(t, conversation_id) ==
    /\ tasks[t].pc = "idle"
    /\ lock_next <= MaxLocks
    /\ IF conversation_id \notin DOMAIN m_locks
       THEN /\ m_locks' = dict_set(m_locks, conversation_id, lock_next)
            /\ lock_next' = lock_next + 1
       ELSE UNCHANGED <<m_locks, lock_next>>
    /\ tasks' = [tasks EXCEPT ![t] = [pc |-> "waiting", id |-> conversation_id,
                                      lock |-> m_locks'[conversation_id]]]
    /\ UNCHANGED <<m_sessions, m_last_activity, held, now>>

\* asyncio.Lock.acquire: the task enters when the lock object is free
M_acquire(t) ==
    /\ tasks[t].pc = "waiting"
    /\ tasks[t].lock \notin held
    /\ held' = held \cup {tasks[t].lock}
    /\ tasks' = [tasks EXCEPT ![t].pc = "inside"]
    /\ UNCHANGED <<m_sessions, m_locks, m_last_activity, lock_next, now>>

\* asyncio.Lock.release at the end of the guarded section
M_release(t) ==
    /\ tasks[t].pc = "inside"
    /\ held' = held \ {tasks[t].lock}
    /\ tasks' = [tasks EXCEPT ![t] = IdleTask]
    /\ UNCHANGED <<m_sessions, m_locks, m_last_activity, lock_next, now>>

M_remove_session(conversation_id) ==
    /\ M_cleanup_sessions({conversation_id})
    /\ UNCHANGED <<lock_next, held, tasks, now>>

M_cleanup_stale_sessions ==
    /\ M_cleanup_sessions({cid \in DOMAIN m_last_activity :
                              now - m_last_activity[cid] > SessionTtl})
    /\ UNCHANGED <<lock_next, held, tasks, now>>

ManagerCreate == \E c \in ManagerIds : M_create_session(c) /\ UNCHANGED NotManager
ManagerStore == \E c \in ManagerIds : M_store_session(c) /\ UNCHANGED NotManager
ManagerGetLock ==
    \E t \in Tasks, c \in ManagerIds : M_get_lock(t, c) /\ UNCHANGED NotManager
ManagerAcquire == \E t \in Tasks : M_acquire(t) /\ UNCHANGED NotManager
ManagerRelease == \E t \in Tasks : M_release(t) /\ UNCHANGED NotManager
ManagerRemove == \E c \in ManagerIds : M_remove_session(c) /\ UNCHANGED NotManager
ManagerCleanup == M_cleanup_stale_sessions /\ UNCHANGED NotManager
ManagerTick == P_tick /\ UNCHANGED <<NotPool>>

ManagerNext ==
    \/ ManagerCreate
    \/ ManagerStore
    \/ ManagerGetLock
    \/ ManagerAcquire
    \/ ManagerRelease
    \/ ManagerRemove
    \/ ManagerCleanup
    \/ ManagerTick

\* search: nothing was asked
NoSearch == [op |-> "none", convs |-> <<>>, query |-> <<>>, results |-> <<>>]

QInit == search = NoSearch

\* ------------------------------------------- branch naming round trip
MaxKeyLen == 3
\* tags of one and of two decimal digits
KeyTags == {0, 1, 2, 10, 12}
KeyInputs == SeqsUpTo(KeyTags, MaxKeyLen)

NoKey == [op |-> "none", branch |-> <<>>, filename |-> <<>>, back |-> <<>>,
          other |-> <<>>, same |-> FALSE]

KInit == key = NoKey

\* a caller holds a branch array
KInputs == key \in {[NoKey EXCEPT !.op = "input", !.branch = p] : p \in KeyInputs}

\* branch_array_to_filename(branch)
K_to_filename ==
    /\ key.op = "input"
    /\ key' = [key EXCEPT !.op = "to_filename",
                          !.filename = branch_array_to_filename(key.branch)]

\* filename_to_branch_array(filename) on the name just produced
K_to_array ==
    /\ key.op = "to_filename"
    /\ key' = [key EXCEPT !.op = "to_array",
                          !.back = filename_to_branch_array(key.filename)]

\* the name of a second branch array is compared with the first
K_same_file(other) ==
    /\ key.op = "to_array"
    /\ key' = [key EXCEPT !.op = "same_file", !.other = other,
                          !.same = (branch_array_to_filename(other) = key.filename)]

KeyToFilename == K_to_filename /\ UNCHANGED NotNaming
KeyToArray == K_to_array /\ UNCHANGED NotNaming
KeySameFile == \E q \in KeyInputs : K_same_file(q) /\ UNCHANGED NotNaming

KeyNext ==
    \/ KeyToFilename
    \/ KeyToArray
    \/ KeySameFile

\* every other component is as constructed
KeyInit == FInit /\ TInit /\ CInit /\ SInit /\ HInit /\ KInputs /\ QInit /\ PInit /\ MInit

SpecKey == KeyInit /\ [][KeyNext]_vars

\* ------------------------------------------------------------ search
MaxTextLen == 2
Letters == {"x", "X", "y"}
Texts == SeqsUpTo(Letters, MaxTextLen) \ {<<>>}
Queries == {<<"x">>, <<"y">>}

\* str.lower(); SQLite's LIKE folds ASCII letters the same way
lower_char(ch) == IF ch = "X" THEN "x" ELSE ch
lower(text) == [i \in 1..Len(text) |-> lower_char(text[i])]

\* query_lower in text.lower(); text LIKE '%query%'
contains(query, text) ==
    \E i \in 0..(Len(text) - Len(query)) :
        SubSeq(lower(text), i + 1, i + Len(query)) = lower(query)

\* ORDER BY updated_at DESC; results.sort(key=updated_at, reverse=True)
RECURSIVE by_updated_desc(_, _)
by_updated_desc(convs, ids) ==
    IF ids = {} THEN <<>>
    ELSE LET newest == CHOOSE c \in ids :
                          \A d \in ids : convs[d].updated_at <= convs[c].updated_at
         IN  <<newest>> \o by_updated_desc(convs, ids \ {newest})

title_matches(convs, query) ==
    {c \in DOMAIN convs : contains(query, convs[c].title)}

content_matches(convs, query) ==
    {c \in DOMAIN convs : \E m \in convs[c].messages : contains(query, m)}

\* file store: one result per matching directory, then one sort by updated_at
file_search(convs, query) ==
    by_updated_desc(convs, title_matches(convs, query)
                              \cup content_matches(convs, query))

\* table store: the title matches, then the content matches not among them
table_search(convs, query) ==
    by_updated_desc(convs, title_matches(convs, query)) \o
    by_updated_desc(convs, content_matches(convs, query)
                              \ title_matches(convs, query))

\* the conversations of a library: a title, at most one message text, and
\* update times that differ
Libraries ==
    {lib \in [ConvIds -> [title : Texts, messages : {{}} \cup {{t} : t \in Texts},
                          updated_at : 1..Cardinality(ConvIds)]] :
        \A c, d \in ConvIds : c # d => lib[c].updated_at # lib[d].updated_at}

QInputs ==
    search \in {[NoSearch EXCEPT !.op = "input", !.convs = lib, !.query = q] :
                   lib \in Libraries, q \in Queries}

Q_file_search ==
    /\ search.op = "input"
    /\ search' = [search EXCEPT !.op = "file_search",
                                !.results = file_search(search.convs, search.query)]

Q_table_search ==
    /\ search.op = "input"
    /\ search' = [search EXCEPT !.op = "table_search",
                                !.results = table_search(search.convs, search.query)]

SearchFile == Q_file_search /\ UNCHANGED NotSearch
SearchTable == Q_table_search /\ UNCHANGED NotSearch

SearchNext ==
    \/ SearchFile
    \/ SearchTable

SearchInit == FInit /\ TInit /\ CInit /\ SInit /\ HInit /\ KInit /\ QInputs /\ PInit /\ MInit

SpecSearch == SearchInit /\ [][SearchNext]_vars

Init == FInit /\ TInit /\ CInit /\ SInit /\ HInit /\ KInit /\ QInit /\ PInit /\ MInit

SpecPool == Init /\ [][PoolNext]_vars

SpecManager == Init /\ [][ManagerNext]_vars

FileCreate == F_create_conversation /\ UNCHANGED NotFile
FileGet == \E ob \in OptBranchInputs : F_get_conversation(ob) /\ UNCHANGED NotFile
FileAdd == \E r \in Roles, c \in Contents, ob \in OptBranchInputs :
              F_add_message(r, c, ob) /\ UNCHANGED NotFile
FileEdit == \E b \in BranchInputs, i \in 0..MaxPos, c \in Contents :
              F_create_branch(b, i, c) /\ UNCHANGED NotFile
FileRetry == \E b \in BranchInputs, p \in 0..MaxPos, c \in Contents :
              F_retry_assistant_message(b, p, c) /\ UNCHANGED NotFile
FileDelete == \E p \in 0..MaxPos, ob \in OptBranchInputs :
              F_delete_messages_from(p, ob) /\ UNCHANGED NotFile

FileNext ==
    \/ FileCreate
    \/ FileAdd
    \/ FileEdit
    \/ FileRetry
    \/ FileDelete

SpecFile == Init /\ [][FileNext]_vars

FileReadNext ==
    \/ FileNext
    \/ FileGet

SpecFileRead == Init /\ [][FileReadNext]_vars

\* ------------------------------------ file store: the branch pointer
\* -1 for previous, +1 for next
Directions == {-1, 1}

PtrCreate == F_create_conversation /\ UNCHANGED NotFile
PtrAdd == \E r \in Roles : F_add_message(r, "a", <<>>) /\ UNCHANGED NotFile
PtrEdit == \E b \in {current_branch, <<0>>}, i \in 0..MaxPos :
              F_create_branch(b, i, "b") /\ UNCHANGED NotFile
PtrEditInterrupted ==
    \E b \in {current_branch, <<0>>}, i \in 0..MaxPos :
        F_create_branch_interrupted(b, i, "b") /\ UNCHANGED NotFile
PtrSwitch == \E b \in BranchInputs \cup {current_branch}, i \in 0..MaxPos,
                d \in Directions :
                F_switch_branch(b, i, d) /\ UNCHANGED NotFile
PtrRetry == \E p \in 0..MaxPos :
              F_retry_assistant_message(current_branch, p, "b") /\ UNCHANGED NotFile
PtrDelete == \E p \in 0..MaxPos, ob \in {<<>>, <<<<0>>>>} :
              F_delete_messages_from(p, ob) /\ UNCHANGED NotFile

PtrNext ==
    \/ PtrCreate
    \/ PtrAdd
    \/ PtrEdit
    \/ PtrEditInterrupted
    \/ PtrSwitch
    \/ PtrRetry
    \/ PtrDelete

SpecFilePointer == Init /\ [][PtrNext]_vars

\* ------------------------------------ file store: branch navigation

\* the branch arrays a caller can hold: small ones, the current branch and
\* the addresses of the branch records
NavBranches ==
    BranchInputs \cup {current_branch}
        \cup {filename_to_branch_array(f) : f \in list_branch_files(files)}

NavCreate == F_create_conversation /\ UNCHANGED NotFile
NavAdd == \E r \in Roles, c \in Contents :
              F_add_message(r, c, <<>>) /\ UNCHANGED NotFile
NavEdit == \E b \in NavBranches, i \in 0..MaxPos, c \in Contents :
              F_create_branch(b, i, c) /\ UNCHANGED NotFile
NavSwitch == \E b \in NavBranches, i \in 0..MaxPos, d \in Directions :
              F_switch_branch(b, i, d) /\ UNCHANGED NotFile
NavVersionInfo == \E b \in NavBranches, i \in 0..MaxPos :
              F_get_version_info(b, i) /\ UNCHANGED NotFile
NavGet == \E ob \in OptBranchInputs : F_get_conversation(ob) /\ UNCHANGED NotFile

NavNext ==
    \/ NavCreate
    \/ NavAdd
    \/ NavEdit
    \/ NavSwitch
    \/ NavVersionInfo
    \/ NavGet

SpecNav == Init /\ [][NavNext]_vars

\* ids of the rows a caller can name as parent_message_id
ParentInputs == {NullId} \cup {m.id : m \in rows}

TableCreate == T_create_conversation /\ UNCHANGED NotTable
TableGet == T_get_conversation(<<>>) /\ UNCHANGED NotTable
TableAdd == \E r \in Roles, c \in Contents, p \in ParentInputs :
               T_add_message(r, c, p) /\ UNCHANGED NotTable
TableEdit == \E p \in 0..MaxPos, c \in Contents :
               T_edit_message(p, c) /\ UNCHANGED NotTable
TableCreateBranch == \E i \in 0..MaxPos, c \in Contents :
               T_create_branch(<<0>>, i, c) /\ UNCHANGED NotTable
TableRetry == \E p \in 0..MaxPos, c \in Contents, q \in ParentInputs :
               T_retry_message(p, c, q) /\ UNCHANGED NotTable
TableSwitch == \E p \in 0..MaxPos, v \in 1..MaxRows :
               T_switch_version(p, v) /\ UNCHANGED NotTable
TableDelete == \E p \in 0..MaxPos : T_delete_messages_from(p) /\ UNCHANGED NotTable

TableNext ==
    \/ TableCreate
    \/ TableGet
    \/ TableAdd
    \/ TableEdit
    \/ TableCreateBranch
    \/ TableRetry
    \/ TableSwitch
    \/ TableDelete

SpecTable == Init /\ [][TableNext]_vars

\* ------------------------------------ both stores behind one contract
\* the same calls, with the same arguments, are made on both stores
BothCreate == F_create_conversation /\ T_create_conversation /\ UNCHANGED NotStores
BothAdd == \E r \in Roles, c \in Contents :
              F_add_message(r, c, <<>>) /\ T_add_message(r, c, NullId) /\ UNCHANGED NotStores
BothEdit == \E i \in 0..MaxPos, c \in Contents :
              /\ F_create_branch(current_branch, i, c)
              /\ T_create_branch(current_branch, i, c)
              /\ UNCHANGED NotStores
BothRetry == \E p \in 0..MaxPos, c \in Contents :
              /\ F_retry_assistant_message(current_branch, p, c)
              /\ T_retry_message(p, c, NullId)
              /\ UNCHANGED NotStores
BothDelete == \E p \in 0..MaxPos :
              F_delete_messages_from(p, <<>>) /\ T_delete_messages_from(p) /\ UNCHANGED NotStores
BothGet == \E ob \in OptBranchInputs :
              F_get_conversation(ob) /\ T_get_conversation(ob) /\ UNCHANGED NotStores

BothNext ==
    \/ BothCreate
    \/ BothAdd
    \/ BothEdit
    \/ BothRetry
    \/ BothDelete
    \/ BothGet

SpecBoth == Init /\ [][BothNext]_vars

\* ------------------------------- concurrent add_message, table store
\* Each await on the aiosqlite connection is a suspension point. A task's
\* SELECT MAX(position) runs outside any transaction; its INSERT, UPDATE
\* and COMMIT become visible to the other connections together.
C_add_select(t, role, content) ==
    /\ tConvExists
    /\ pc[t] \in {"idle", "done"}
    /\ tNextId + Cardinality({u \in Tasks : pc[u] = "selected"}) <= MaxRows
    /\ pc' = [pc EXCEPT ![t] = "selected"]
    /\ pending' = [pending EXCEPT ![t] =
                      [role |-> role, content |-> content, parent |-> NullId,
                       position |-> next_position(rows), version |-> 1,
                       id |-> NullId]]
    /\ UNCHANGED <<tvars, fvars, svars, hvars, xvars>>

C_add_insert(t) ==
    LET row == Row(tNextId, pending[t].role, pending[t].content,
                   pending[t].position, 1, pending[t].parent)
    IN  /\ pc[t] = "selected"
        /\ rows' = rows \cup {row}
        /\ tNextId' = tNextId + 1
        /\ pc' = [pc EXCEPT ![t] = "done"]
        /\ pending' = [pending EXCEPT ![t].id = row.id]
        /\ tret' = [NoTRet EXCEPT !.op = "add_message", !.ok = TRUE,
                                  !.messages = <<row>>, !.position = row.position,
                                  !.version = 1, !.parent = row.parent]
        /\ UNCHANGED <<tConvExists, active_versions, fvars, svars, hvars, xvars>>

ConcCreate == T_create_conversation /\ UNCHANGED NotTable
ConcSelect == \E t \in Tasks, r \in Roles, c \in Contents : C_add_select(t, r, c)
ConcInsert == \E t \in Tasks : C_add_insert(t)

ConcNext ==
    \/ ConcCreate
    \/ ConcSelect
    \/ ConcInsert

SpecConc == Init /\ [][ConcNext]_vars

\* ----------------------- concurrent edit_message and retry_message
\* a task that has computed its new version and has not inserted its row
VersionSelected == {"edit_selected", "retry_selected"}

\* edit_message up to its INSERT: SELECT MAX(version), role, parent_message_id
C_edit_select(t, position, new_content) ==
    LET row == edit_row(rows, NullId, position, new_content)
    IN  /\ tConvExists
        /\ pc[t] \in {"idle", "done"}
        /\ tNextId + Cardinality({u \in Tasks : pc[u] \in VersionSelected}) <= MaxRows
        /\ pc' = [pc EXCEPT ![t] = "edit_selected"]
        /\ pending' = [pending EXCEPT ![t] =
                          [role |-> row.role, content |-> new_content,
                           parent |-> row.parent, position |-> position,
                           version |-> row.version, id |-> NullId]]
        /\ UNCHANGED <<tvars, fvars, svars, hvars, xvars>>

\* retry_message up to its INSERT: SELECT MAX(version), parent_message_id
C_retry_select(t, position, new_content) ==
    LET at == RowsAt(rows, position)
    IN  /\ tConvExists
        /\ pc[t] \in {"idle", "done"}
        /\ tNextId + Cardinality({u \in Tasks : pc[u] \in VersionSelected}) <= MaxRows
        /\ pc' = [pc EXCEPT ![t] = "retry_selected"]
        /\ pending' = [pending EXCEPT ![t] =
                          [role |-> "assistant", content |-> new_content,
                           parent |-> IF at = {} THEN NullId
                                      ELSE MaxVersionRow(at).parent,
                           position |-> position,
                           version |-> IF at = {} THEN 1 ELSE MaxVersion(at) + 1,
                           id |-> NullId]]
        /\ UNCHANGED <<tvars, fvars, svars, hvars, xvars>>

\* the INSERT with the version that was computed, the update of
\* active_versions and the COMMIT; edit_message also clears the active
\* versions of the later positions
C_version_insert(t) ==
    LET p == pending[t]
        row == Row(tNextId, p.role, p.content, p.position, p.version, p.parent)
        active == SetActive(active_versions, p.position, p.version)
    IN  /\ pc[t] \in VersionSelected
        /\ rows' = rows \cup {row}
        /\ tNextId' = tNextId + 1
        /\ active_versions' = IF pc[t] = "edit_selected"
                              THEN clear_after(active, p.position) ELSE active
        /\ pc' = [pc EXCEPT ![t] = "done"]
        /\ pending' = [pending EXCEPT ![t].id = row.id]
        /\ tret' = [NoTRet EXCEPT !.op = IF pc[t] = "edit_selected"
                                          THEN "edit_message" ELSE "retry_message",
                                  !.ok = TRUE,
                                  !.messages = <<row>>, !.position = row.position,
                                  !.version = row.version, !.parent = row.parent]
        /\ UNCHANGED <<tConvExists, fvars, svars, hvars, xvars>>

VersionCreate == T_create_conversation /\ UNCHANGED NotTable
VersionAdd == \E r \in Roles : T_add_message(r, "a", NullId) /\ UNCHANGED NotTable
\* the callers edit and retry messages that exist
VersionEditSelect ==
    \E t \in Tasks, p \in {m.position : m \in rows} : C_edit_select(t, p, "b")
VersionRetrySelect ==
    \E t \in Tasks, p \in {m.position : m \in rows} : C_retry_select(t, p, "b")
VersionInsert == \E t \in Tasks : C_version_insert(t)

VersionNext ==
    \/ VersionCreate
    \/ VersionAdd
    \/ VersionEditSelect
    \/ VersionRetrySelect
    \/ VersionInsert

SpecConcVersion == Init /\ [][VersionNext]_vars

\* ---------------------------------------------- the registry on its own
RegStart == \E id \in ConvIds, ty \in StreamTypes :
                S_start_stream(id, ty) /\ UNCHANGED NotRegistry
RegEnd == \E id \in ConvIds : S_end_stream(id) /\ UNCHANGED NotRegistry
RegStop == \E id \in ConvIds : S_stop_stream(id) /\ UNCHANGED NotRegistry
RegStatus == \E id \in ConvIds : S_get_status(id) /\ UNCHANGED NotRegistry
RegIsStreaming == \E id \in ConvIds : S_is_streaming(id) /\ UNCHANGED NotRegistry
RegSetSteer == \E id \in ConvIds, g \in Guidances :
                S_set_steer_context(id, g) /\ UNCHANGED NotRegistry
RegGetSteer == \E id \in ConvIds : S_get_steer_context(id) /\ UNCHANGED NotRegistry
RegClearSteer == \E id \in ConvIds : S_clear_steer_context(id) /\ UNCHANGED NotRegistry

RegNext ==
    \/ RegStart
    \/ RegEnd
    \/ RegStop
    \/ RegStatus
    \/ RegIsStreaming
    \/ RegSetSteer
    \/ RegGetSteer
    \/ RegClearSteer

SpecReg == Init /\ [][RegNext]_vars

\* -------------------------------- streaming updates on both stores
UpdCreate == F_create_conversation /\ T_create_conversation /\ UNCHANGED NotStores
UpdAdd == \E r \in Roles, c \in Contents :
              F_add_message(r, c, <<>>) /\ T_add_message(r, c, NullId) /\ UNCHANGED NotStores
UpdUpdate == \E id \in 1..MaxIds, c \in Contents, st \in BOOLEAN :
              /\ F_update_message_content(id, c, <<>>, st)
              /\ T_update_message_content(id, c, st)
              /\ UNCHANGED NotStores

UpdNext ==
    \/ UpdCreate
    \/ UpdAdd
    \/ UpdUpdate

SpecUpdate == Init /\ [][UpdNext]_vars

\* ---------- file store: content updates and truncation on branches
FupdCreate == F_create_conversation /\ UNCHANGED NotFile
FupdAdd == \E r \in Roles, c \in Contents :
              F_add_message(r, c, <<>>) /\ UNCHANGED NotFile
FupdEdit == \E i \in 0..MaxPos, c \in Contents :
              F_create_branch(current_branch, i, c) /\ UNCHANGED NotFile
FupdUpdate == \E id \in 1..MaxIds, c \in Contents, ob \in OptBranchInputs, st \in BOOLEAN :
              F_update_message_content(id, c, ob, st) /\ UNCHANGED NotFile

FupdDelete == \E p \in 0..MaxPos, ob \in OptBranchInputs :
              F_delete_messages_from(p, ob) /\ UNCHANGED NotFile

FupdNext ==
    \/ FupdCreate
    \/ FupdAdd
    \/ FupdEdit
    \/ FupdUpdate
    \/ FupdDelete

SpecFileUpdate == Init /\ [][FupdNext]_vars

\* ------------------------------- stream handlers, registry and file store
StreamCreate == F_create_conversation /\ UNCHANGED NotFile
StreamStartAgent == \E h \in Handlers : H_start_agent(h)
StreamCreateMessage == \E h \in Handlers : H_create_message(h)
StreamReadSteer == \E h \in Handlers : H_read_steer(h)
StreamStartNormal == \E h \in Handlers : H_start_normal(h)
StreamEvent == \E h \in Handlers, chunk \in Chunks : H_event(h, chunk)
StreamUpstreamEnd == \E h \in Handlers : H_upstream_end(h)
StreamUpstreamError == \E h \in Handlers : H_upstream_error(h)
StreamErrorEvent == \E h \in Handlers : H_error_event(h)
StreamFinish == \E h \in Handlers : H_finish(h)
StreamCompleteNormal == \E h \in Handlers : H_complete_normal(h)
StreamStop == S_stop_stream(HConv) /\ UNCHANGED NotRegistry
StreamSteer == \E g \in {"g1"} : E_steer(g)
StreamDelete == \E p \in 0..MaxPos : F_delete_messages_from(p, <<>>) /\ UNCHANGED NotFile

StreamNext ==
    \/ StreamCreate
    \/ StreamStartAgent
    \/ StreamCreateMessage
    \/ StreamReadSteer
    \/ StreamStartNormal
    \/ StreamEvent
    \/ StreamUpstreamEnd
    \/ StreamUpstreamError
    \/ StreamErrorEvent
    \/ StreamFinish
    \/ StreamCompleteNormal
    \/ StreamStop
    \/ StreamSteer
    \/ StreamDelete

SpecStream == Init /\ [][StreamNext]_vars

\* ================================================================ claims
FKey(branch) == branch_array_to_filename(branch)

\* sibling tags at user_msg_index among the branch records sharing the prefix
SiblingTags(fs, prefix, user_msg_index) ==
    {extend_branch_array(filename_to_branch_array(f), user_msg_index + 1)[user_msg_index + 1] :
        f \in {g \in DOMAIN fs :
                 extend_branch_array(filename_to_branch_array(g), user_msg_index) = prefix}}

AllFileIds(fs) == UNION {{fs[f][i].id : i \in 1..Len(fs[f])} : f \in DOMAIN fs}

\* C1: every successful create_branch assigns the lowest non-negative tag
\* that no branch record sharing the prefix uses, and the set of sibling
\* tags at that prefix and index grows by exactly that one tag (so N edits
\* of an original leave N+1 distinct tags).
C1_SiblingUniqueness ==
    [][\A b \in BranchInputs, i \in 0..MaxPos, c \in Contents :
         (ret'.op = "create_branch" /\ ret'.ok /\ F_create_branch(b, i, c)) =>
            LET prefix == extend_branch_array(b, i)
                before == SiblingTags(files, prefix, i)
                after == SiblingTags(files', prefix, i)
                tag == ret'.branch[i + 1]
            IN  /\ Len(ret'.branch) = i + 1
                /\ SubSeq(ret'.branch, 1, i) = prefix
                /\ tag >= 0
                /\ tag \notin before
                /\ \A m \in 0..(tag - 1) : m \in before
                /\ after = before \cup {tag}
                /\ Cardinality(after) = Cardinality(before) + 1]_vars

\* two edits of the original first user message: three sibling tags
C1_Witness ==
    /\ ret.op = "create_branch"
    /\ ret.ok
    /\ ret.branch = <<2>>
    /\ SiblingTags(files, <<>>, 0) = {0, 1, 2}

\* C2: create_branch writes no existing branch record: every record that
\* existed before holds the same message list afterwards, and the record it
\* writes has a key no existing record had.
C2_EditKeepsSiblings ==
    [][\A b \in BranchInputs, i \in 0..MaxPos, c \in Contents :
         (ret'.op = "create_branch" /\ ret'.ok /\ F_create_branch(b, i, c)) =>
            /\ \A f \in DOMAIN files : f \in DOMAIN files' /\ files'[f] = files[f]
            /\ FKey(ret'.branch) \notin DOMAIN files
            /\ DOMAIN files' = DOMAIN files \cup {FKey(ret'.branch)}]_vars

\* an edit made while another version of the same user message exists
C2_Witness ==
    /\ ret.op = "create_branch"
    /\ ret.ok
    /\ \E f \in DOMAIN files :
          /\ f # FKey(ret.branch)
          /\ Len(files[f]) > ret.num
          /\ files[f][ret.num + 1].role = "user"
          /\ files[f][ret.num + 1].id # ret.messages[1].id
          /\ Len(filename_to_branch_array(f)) = Len(ret.branch)

\* C3: retry_assistant_message at a position below the message count keeps
\* the branch address and leaves the branch with position+1 messages, the
\* first `position` unchanged and the last a new assistant message;
\* create_branch returns an address different from the current one whose
\* record is the unedited prefix followed by the edited user message.
C3_RetryTruncatesEditForks ==
    [][/\ \A b \in BranchInputs, p \in 0..MaxPos, c \in Contents :
            (ret'.op = "retry_assistant_message" /\ ret'.ok
                /\ F_retry_assistant_message(b, p, c)) =>
               /\ p < Len(files[FKey(b)])
               /\ DOMAIN files' = DOMAIN files
               /\ current_branch' = current_branch
               /\ \A f \in DOMAIN files : f # FKey(b) => files'[f] = files[f]
               /\ Len(files'[FKey(b)]) = p + 1
               /\ SubSeq(files'[FKey(b)], 1, p) = SubSeq(files[FKey(b)], 1, p)
               /\ files'[FKey(b)][p + 1].role = "assistant"
               /\ files'[FKey(b)][p + 1].content = c
               /\ files'[FKey(b)][p + 1].id \notin AllFileIds(files)
               /\ ret'.messages = <<files'[FKey(b)][p + 1]>>
       /\ \A b \in BranchInputs, i \in 0..MaxPos, c \in Contents :
            (ret'.op = "create_branch" /\ ret'.ok /\ F_create_branch(b, i, c)) =>
               LET old == files[FKey(b)]
                   new == files'[FKey(ret'.branch)]
                   e == ret'.num
               IN  /\ ret'.branch # b
                   /\ FKey(ret'.branch) # FKey(b)
                   /\ e < Len(old)
                   /\ old[e + 1].role = "user"
                   /\ Cardinality({j \in 1..e : old[j].role = "user"}) = i
                   /\ Len(new) = e + 1
                   /\ SubSeq(new, 1, e) = SubSeq(old, 1, e)
                   /\ new[e + 1].role = "user"
                   /\ new[e + 1].content = c
                   /\ new[e + 1].id \notin AllFileIds(files)]_vars

\* a retry that dropped a message after the retried position
C3_Witness ==
    /\ ret.op = "retry_assistant_message"
    /\ ret.ok
    /\ ret.num = 0
    /\ fNextId = 4
    /\ \E f \in DOMAIN files : Len(files[f]) = 1 /\ files[f][1].id = 3

\* the row the resolution walk selects at a position, as a set (empty: none)
ActiveRowsAt(rs, av, position) ==
    LET chain == resolve_chain(rs, av)
    IN  {m \in rs : \E i \in 1..Len(chain) :
                       chain[i].id = m.id /\ chain[i].position = position}

\* C5: after the table store's create_branch has edited a user message of
\* a conversation that has messages after that position, get_conversation
\* returns a sequence that ends with the edited message.
C5_EditStartsEmpty ==
    (/\ tret.op = "create_branch"
     /\ tret.ok
     /\ \E m \in rows : m.position > tret.position) =>
        LET chain == resolve_chain(rows, active_versions)
        IN  /\ Len(chain) > 0
            /\ chain[Len(chain)].id = tret.messages[1].id

\* C6: the row edit_message inserts at a position has the
\* parent_message_id of the row that was active at that position.
C6_EditStaysSibling ==
    [][\A p \in 0..(2 * MaxPos) :
         (tret'.op \in {"edit_message", "create_branch"} /\ tret'.ok
            /\ tNextId' = tNextId + 1 /\ tret'.position = p) =>
            \A m \in ActiveRowsAt(rows, active_versions, p) :
                tret'.messages[1].parent = m.parent]_vars

\* C7: after edit_message at position P the override map selects the new
\* version at P, has no entry for a position greater than P, and keeps its
\* entries for the positions less than P.
C7_OverrideInvalidation ==
    [][\A p \in 0..(2 * MaxPos) :
         (tret'.op \in {"edit_message", "create_branch"} /\ tret'.ok
            /\ tNextId' = tNextId + 1 /\ tret'.position = p) =>
            /\ rows' = rows \cup {tret'.messages[1]}
            /\ tret'.messages[1].id \notin {m.id : m \in rows}
            /\ tret'.messages[1].position = p
            /\ \A m \in RowsAt(rows, p) : m.version # tret'.messages[1].version
            /\ IntToStr(p) \in DOMAIN active_versions'
            /\ active_versions'[IntToStr(p)] = tret'.messages[1].version
            /\ \A k \in DOMAIN active_versions' : StrToInt(k) <= p
            /\ \A k \in DOMAIN active_versions :
                  StrToInt(k) < p =>
                     /\ k \in DOMAIN active_versions'
                     /\ active_versions'[k] = active_versions[k]]_vars

\* an edit at position 1 that kept the override of position 0 and dropped
\* the override of position 2
C7_Witness ==
    /\ tret.op = "edit_message"
    /\ tret.position = 1
    /\ tNextId = 4
    /\ DOMAIN active_versions = {IntToStr(0), IntToStr(1)}
    /\ \E m \in RowsAt(rows, 0) : m.role = "assistant"
    /\ RowsAt(rows, 2) # {}

\* the walk's rule, stated on a result: one row per position in increasing
\* order; after a selected row, parent-matching rows win when there are any;
\* among the rows kept, the override's version if present, else the latest
WalkFollowsRule(chain, rs, av) ==
    /\ \A i \in 1..Len(chain) :
          \E m \in rs : /\ m.id = chain[i].id
                        /\ m.position = chain[i].position
                        /\ m.version = chain[i].version
                        /\ m.parent = chain[i].parent
    /\ \A i \in 1..(Len(chain) - 1) : chain[i].position < chain[i + 1].position
    /\ {chain[i].position : i \in 1..Len(chain)} = {m.position : m \in rs}
    /\ \A i \in 1..Len(chain) :
          LET pos == chain[i].position
              by_parent == IF i = 1 THEN {}
                           ELSE {m \in RowsAt(rs, pos) : m.parent = chain[i - 1].id}
              eligible == IF pos = 0 THEN RowsAt(rs, pos) ELSE by_parent
              override == ActiveVer(av, pos)
          IN  eligible # {} =>
                 /\ \E m \in eligible : m.id = chain[i].id
                 /\ IF \E m \in eligible : m.version = override
                    THEN chain[i].version = override
                    ELSE \A m \in eligible : m.version <= chain[i].version

\* C8: get_conversation and get_messages_up_to return the rows the
\* resolution walk's rule selects.
C8_ResolutionWalk ==
    /\ WalkFollowsRule(resolve_chain(rows, active_versions), rows, active_versions)
    /\ \A p \in 0..(2 * MaxPos + 1) :
          WalkFollowsRule(messages_up_to(rows, active_versions, p),
                          {m \in rows : m.position < p}, active_versions)

\* the walk passed over the latest row at a position, which the override
\* names, because another row has the selected parent
C8_Witness ==
    LET chain == resolve_chain(rows, active_versions)
    IN  /\ Len(chain) >= 2
        /\ \E m \in RowsAt(rows, chain[2].position) :
              /\ m.version > chain[2].version
              /\ m.version = ActiveVer(active_versions, chain[2].position)
              /\ m.parent # chain[1].id
        /\ chain[2].parent = chain[1].id

RoleContent(messages) ==
    [i \in 1..Len(messages) |-> <<messages[i].role, messages[i].content>>]

\* get_conversation returns the same roles and contents from both stores
BackendsAgree ==
    RoleContent(get_conversation_messages(files, current_branch, <<>>))
        = RoleContent(resolve_chain(rows, active_versions))

\* C4: when the same operation is applied to both stores while they return
\* the same conversation, and it succeeds on both, get_conversation still
\* returns the same sequence of roles and contents from both stores.
C4_BackendsAgree ==
    [][(convExists /\ tConvExists /\ BackendsAgree /\ ret'.ok /\ tret'.ok)
          => BackendsAgree']_vars

\* C9: a get_conversation changes no persisted state of either store, and
\* a get_conversation that follows a get_conversation of the same branch
\* returns the same messages.
C9_ReadIdempotent ==
    [][\A ob \in OptBranchInputs :
         (ret'.op = "get_conversation" /\ tret'.op = "get_conversation"
            /\ F_get_conversation(ob) /\ T_get_conversation(ob)) =>
            /\ UNCHANGED <<convExists, current_branch, files, fNextId>>
            /\ UNCHANGED <<tConvExists, rows, active_versions, tNextId>>
            /\ (ret.op = "get_conversation" /\ ret.ok /\ ret'.ok
                  /\ FKey(ret.branch) = FKey(ret'.branch)) =>
                     RoleContent(ret'.messages) = RoleContent(ret.messages)
            /\ (ret.op = "get_conversation" /\ ret.ok /\ ret'.ok
                  /\ ret.branch = ret'.branch) => ret'.messages = ret.messages
            /\ (tret.op = "get_conversation" /\ tret.ok /\ tret'.ok) =>
                     tret'.messages = tret.messages]_vars

\* the current branch read by name after an edit, both stores holding
\* more than one version of the first message
C9_Witness ==
    /\ ret.op = "get_conversation"
    /\ ret.ok
    /\ tret.op = "get_conversation"
    /\ tret.ok
    /\ ret.branch = current_branch
    /\ current_branch # <<0>>
    /\ Len(ret.messages) > 0
    /\ Len(tret.messages) > 0
    /\ Cardinality(DOMAIN files) > 1
    /\ Cardinality(RowsAt(rows, 0)) > 1

\* ids of the messages get_conversation returns from the table store
ChainIds == {resolve_chain(rows, active_versions)[i].id :
                i \in 1..Len(resolve_chain(rows, active_versions))}

\* C10: when two add_message calls on one conversation have both returned,
\* they were given distinct positions and both messages are on the branch.
C10_NoLostUpdate ==
    (\A t \in Tasks : pc[t] = "done") =>
        \A t, u \in Tasks :
            t # u => /\ pending[t].position # pending[u].position
                     /\ pending[t].id \in ChainIds

\* C14: start_stream returns a stop signal exactly for AGENT sessions;
\* stop_stream(id) returns true and sets that signal exactly when id has an
\* active AGENT session, and returns false and changes nothing in the
\* registry otherwise; get_status(id).stoppable is the value stop_stream(id)
\* returns.
C14_CancelCapability ==
    [][/\ sret'.op = "start_stream" =>
            /\ (sret'.event # NoEvent) <=> (streams'[sret'.id].stream_type = "agent")
            /\ streams'[sret'.id].stop_event = sret'.event
            /\ sret'.event \notin set_events'
       /\ sret'.op = "stop_stream" =>
            /\ sret'.ok <=> /\ sret'.id \in DOMAIN streams
                            /\ streams[sret'.id].stream_type = "agent"
            /\ sret'.ok = get_status(streams, sret'.id).stoppable
            /\ sret'.ok => /\ streams[sret'.id].stop_event # NoEvent
                           /\ set_events' = set_events \cup {streams[sret'.id].stop_event}
            /\ ~sret'.ok => set_events' = set_events
            /\ UNCHANGED <<streams, evNext, steer_contexts>>]_vars

\* a stop that was refused for a NORMAL session while another conversation's
\* AGENT session had been stopped
C14_Witness ==
    /\ sret.op = "stop_stream"
    /\ ~sret.ok
    /\ sret.id \in DOMAIN streams
    /\ streams[sret.id].stream_type = "normal"
    /\ \E c \in DOMAIN streams : streams[c].stop_event \in set_events

\* C15: end_stream(id) returns true exactly when id had a session and leaves
\* id idle and every other conversation's session unchanged; while id is
\* idle, get_status(id).streaming, is_streaming(id) and stop_stream(id) are
\* false, and only start_stream(id) makes id active again.
C15_SessionStateMachine ==
    [][/\ sret'.op = "end_stream" =>
            /\ sret'.ok = (sret'.id \in DOMAIN streams)
            /\ sret'.id \notin DOMAIN streams'
            /\ DOMAIN streams' = DOMAIN streams \ {sret'.id}
            /\ \A c \in DOMAIN streams' : streams'[c] = streams[c]
            /\ UNCHANGED <<set_events, evNext, steer_contexts>>
       /\ (sret'.op = "get_status" /\ sret'.id \notin DOMAIN streams) =>
            (~sret'.streaming /\ ~sret'.stoppable)
       /\ (sret'.op = "is_streaming" /\ sret'.id \notin DOMAIN streams) =>
            ~sret'.streaming
       /\ (sret'.op = "stop_stream" /\ sret'.id \notin DOMAIN streams) =>
            ~sret'.ok
       /\ \A c \in ConvIds :
            (c \notin DOMAIN streams /\ c \in DOMAIN streams') =>
                (sret'.op = "start_stream" /\ sret'.id = c)]_vars

\* a session was ended while the other conversation's stopped AGENT session
\* stays registered
C15_Witness ==
    /\ sret.op = "end_stream"
    /\ sret.ok
    /\ \E c \in DOMAIN streams :
          c # sret.id /\ streams[c].stop_event \in set_events

\* the events held by the sessions in the registry
RegisteredEvents == {streams[c].stop_event : c \in DOMAIN streams}

\* C16: the registry holds one session per conversation id. start_stream on
\* an id that has a session replaces the entry with the new session, whose
\* signal is a new one; get_status then reports the new kind; stop_stream
\* sets no signal but the one of the registered session; a signal that is
\* no longer registered is never set by a later registry operation.
C16_OneSessionPerId ==
    [][/\ sret'.op = "start_stream" =>
            /\ DOMAIN streams' = DOMAIN streams \cup {sret'.id}
            /\ \A c \in DOMAIN streams' \ {sret'.id} : streams'[c] = streams[c]
            /\ get_status(streams', sret'.id).type = streams'[sret'.id].stream_type
            /\ streams'[sret'.id].stop_event = sret'.event
            /\ sret'.event # NoEvent =>
                  /\ sret'.event \notin RegisteredEvents
                  /\ sret'.event \notin set_events'
            /\ set_events' = set_events
       /\ sret'.op = "stop_stream" =>
            set_events' \ set_events \subseteq
                (IF sret'.id \in DOMAIN streams
                 THEN {streams[sret'.id].stop_event} ELSE {})
       /\ \A e \in 1..(evNext - 1) :
            (e \notin RegisteredEvents /\ e \notin set_events) => e \notin set_events']_vars

\* the registered AGENT session of a conversation was stopped while an
\* earlier signal, no longer registered, is not set
C16_Witness ==
    /\ sret.op = "stop_stream"
    /\ sret.ok
    /\ DOMAIN streams = {sret.id}
    /\ streams[sret.id].stop_event \in set_events
    /\ \E e \in 1..(evNext - 1) :
          /\ e < streams[sret.id].stop_event
          /\ e \notin RegisteredEvents
          /\ e \notin set_events

\* C17: set_steer_context(id, c) stores c for id; start_stream, stop_stream
\* and end_stream leave every stored context in place; get_steer_context(id)
\* returns the stored context; after clear_steer_context(id) the id has no
\* context, and only set_steer_context(id) gives it one again.
C17_SteerSurvivesStreamEnd ==
    [][/\ \A id \in ConvIds, g \in Guidances :
            (sret'.op = "set_steer_context" /\ S_set_steer_context(id, g)) =>
                steer_lookup(steer_contexts', id) = g
       /\ sret'.op \in {"start_stream", "stop_stream", "end_stream"} =>
            steer_contexts' = steer_contexts
       /\ sret'.op = "get_steer_context" =>
            sret'.context = steer_lookup(steer_contexts, sret'.id)
       /\ sret'.op = "clear_steer_context" =>
            steer_lookup(steer_contexts', sret'.id) = NoContext
       /\ \A id \in ConvIds :
            (steer_lookup(steer_contexts, id) = NoContext
               /\ steer_lookup(steer_contexts', id) # NoContext) =>
                  (sret'.op = "set_steer_context" /\ sret'.id = id)]_vars

\* the stopped AGENT session of a conversation was ended and the
\* conversation's steer context is still stored
C17_Witness ==
    /\ sret.op = "end_stream"
    /\ sret.ok
    /\ set_events # {}
    /\ steer_lookup(steer_contexts, sret.id) # NoContext

\* C19 as first stated: once get_steer_context(id) has returned a context,
\* the context is no longer stored, so the next get_steer_context(id)
\* returns nothing.
C19_ClearedOnFirstRead ==
    (sret.op = "get_steer_context" /\ sret.context # NoContext) =>
        steer_lookup(steer_contexts, sret.id) = NoContext

\* C19: get_steer_context(id) returns the stored context and removes
\* nothing, so a read is repeatable; the context is removed by
\* clear_steer_context(id), which returns whether there was one, and by
\* nothing else.
C19_ClearedByClear ==
    [][/\ sret'.op = "get_steer_context" =>
            /\ sret'.context = steer_lookup(steer_contexts, sret'.id)
            /\ steer_contexts' = steer_contexts
       /\ sret'.op = "clear_steer_context" =>
            /\ sret'.ok = (sret'.id \in DOMAIN steer_contexts)
            /\ DOMAIN steer_contexts' = DOMAIN steer_contexts \ {sret'.id}
            /\ \A c \in DOMAIN steer_contexts' : steer_contexts'[c] = steer_contexts[c]
       /\ \A id \in ConvIds :
            (id \in DOMAIN steer_contexts /\ id \notin DOMAIN steer_contexts') =>
                (sret'.op = "clear_steer_context" /\ sret'.id = id)]_vars

\* a read returned a context that is still stored afterwards
C19_Witness ==
    /\ sret.op = "get_steer_context"
    /\ sret.context # NoContext
    /\ steer_lookup(steer_contexts, sret.id) = sret.context

\* C20: once an update_message_content on a message has carried
\* streaming = false, the next update_message_content on the same message
\* id leaves the persisted content of both stores unchanged.
C20_FinalizedImmutable ==
    [][/\ (ret.op = "update_message_content" /\ ret.ok /\ ~ret.streaming
             /\ ret'.op = "update_message_content" /\ ret'.num = ret.num) =>
                files' = files
       /\ (tret.op = "update_message_content" /\ tret.ok /\ ~tret.streaming
             /\ tret'.op = "update_message_content" /\ tret'.id = tret.id) =>
                rows' = rows]_vars

\* C11: once the stop event of an agent handler's own session is set, the
\* handler accumulates and forwards no further upstream event; the next
\* event it receives makes it emit 'stopped' and leave the loop; its next
\* step is the final update_message_content for its message followed by its
\* return, and a stopped handler consumes no further event.
C11_StopWithinOneEvent ==
    [][\A h \in Handlers :
         /\ (handlers[h].kind = "agent" /\ handlers[h].pc = "streaming"
               /\ handlers[h].stop_event \in set_events) =>
                /\ handlers'[h].acc = handlers[h].acc
                /\ handlers'[h].received # handlers[h].received =>
                      /\ handlers'[h].received = handlers[h].received + 1
                      /\ handlers'[h].stopped
                      /\ handlers'[h].pc = "finishing"
         /\ (handlers[h].stopped /\ handlers'[h] # handlers[h]) =>
                /\ handlers[h].pc = "finishing"
                /\ handlers'[h].pc = "returned"
                /\ handlers'[h].ended
                /\ handlers'[h].received = handlers[h].received
                /\ handlers'[h].acc = handlers[h].acc
                /\ ret'.op = "update_message_content"
                /\ ret'.num = handlers[h].msg_id]_vars

\* a handler that had forwarded an event was stopped, wrote its message and
\* returned before upstream was exhausted
C11_Witness ==
    \E h \in Handlers :
        /\ handlers[h].stopped
        /\ handlers[h].pc = "returned"
        /\ handlers[h].saved
        /\ handlers[h].acc # <<>>
        /\ handlers[h].received <= MaxChunks

\* the content a handler is to leave persisted: what it accumulated, and
\* the stop marker when it was stopped
ExpectedContent(hd) ==
    IF hd.stopped THEN hd.acc \o <<StopMarker>> ELSE hd.acc

\* the persisted content of message_id on the handlers' branch is content
PersistedAs(fs, message_id, content) ==
    /\ FKey(HBranch) \in DOMAIN fs
    /\ \E i \in 1..Len(fs[FKey(HBranch)]) :
          /\ fs[FKey(HBranch)][i].id = message_id
          /\ fs[FKey(HBranch)][i].content = content

\* C12 as first stated: when a handler finishes by completion or stop, its
\* message is persisted with everything it accumulated at the moment the
\* session is ended, whatever other store operations ran meanwhile.
C12_NoContentLost ==
    [][\A h \in Handlers :
         (handlers[h].pc \in {"finishing", "streaming"}
            /\ handlers'[h].pc = "returned") =>
            /\ PersistedAs(files', handlers[h].msg_id, ExpectedContent(handlers[h]))
            /\ sret'.op = "end_stream"]_vars

\* C12: when a handler finishes by completion or stop and its message is
\* still on the branch record, the final update_message_content is made in
\* the step that ends the session and leaves the message persisted with
\* everything the handler accumulated (and the stop marker when stopped);
\* when the message was removed meanwhile, the write reports failure and
\* nothing is persisted.
C12_NoContentLostWhilePresent ==
    [][\A h \in Handlers :
         (handlers[h].pc \in {"finishing", "streaming"}
            /\ handlers'[h].pc = "returned") =>
            /\ sret'.op = "end_stream"
            /\ HConv \notin DOMAIN streams'
            /\ ret'.op = "update_message_content"
            /\ ret'.num = handlers[h].msg_id
            /\ IF FKey(HBranch) \in DOMAIN files
                  /\ HasMessage(files[FKey(HBranch)], handlers[h].msg_id)
               THEN /\ ret'.ok
                    /\ PersistedAs(files', handlers[h].msg_id,
                                   ExpectedContent(handlers[h]))
               ELSE /\ ~ret'.ok
                    /\ files' = files]_vars

\* a handler completed without a stop and its message holds the events it
\* forwarded
C12_Witness ==
    \E h \in Handlers :
        /\ handlers[h].pc = "returned"
        /\ handlers[h].saved
        /\ ~handlers[h].stopped
        /\ handlers[h].acc # <<>>
        /\ PersistedAs(files, handlers[h].msg_id, handlers[h].acc)

\* C13: a handler that has called start_stream and has terminated has
\* called end_stream.
C13_SessionDestroyed ==
    \A h \in Handlers :
        handlers[h].pc \in {"returned", "failed"} => handlers[h].ended

\* C18: a handler reads the steer context and clears it in one step, so the
\* context it incorporates is the stored one and is gone from the channel
\* before any other handler runs; no other step gives a handler a context,
\* and only set_steer_context stores one.
C18_AtMostOneApplication ==
    [][/\ \A h \in Handlers :
            IF handlers[h].pc = "steer" /\ handlers'[h].pc = "streaming"
            THEN /\ handlers'[h].steer = steer_lookup(steer_contexts, HConv)
                 /\ steer_lookup(steer_contexts', HConv) = NoContext
                 /\ \A g \in Handlers \ {h} : handlers'[g] = handlers[g]
            ELSE handlers'[h].steer = handlers[h].steer
       /\ (steer_lookup(steer_contexts, HConv) = NoContext
             /\ steer_lookup(steer_contexts', HConv) # NoContext) =>
                sret'.op = "set_steer_context"]_vars

\* two agent handlers have passed the point where the context is read; one
\* incorporated the guidance, the other found none
C18_Witness ==
    \E h, g \in Handlers :
        /\ handlers[h].steer # NoContext
        /\ handlers[g].kind = "agent"
        /\ handlers[g].pc = "streaming"
        /\ handlers[g].steer = NoContext
        /\ steer_lookup(steer_contexts, HConv) = NoContext

\* the branch array with its trailing zeros removed, one entry always kept
LastNonZero(p) ==
    LET nz == {i \in 1..Len(p) : p[i] # 0}
    IN  IF nz = {} THEN 1 ELSE CHOOSE i \in nz : \A j \in nz : j <= i

Normalized(p) == IF Len(p) = 0 THEN <<0>> ELSE SubSeq(p, 1, LastNonZero(p))

\* C21: reading back the filename of a branch array gives the array with
\* its trailing zeros removed and at least one entry kept (<<0>> for the
\* empty and the all-zero array), and two branch arrays get the same
\* filename exactly when they are equal after that removal.
C21_RoundTrip ==
    /\ key.op \in {"to_array", "same_file"} => key.back = Normalized(key.branch)
    /\ key.op = "same_file" =>
          (key.same <=> Normalized(key.branch) = Normalized(key.other))

C21_Witness ==
    /\ key.op = "same_file"
    /\ key.branch = <<12, 0, 0>>
    /\ key.back = <<12>>
    /\ key.other = <<12, 0>>
    /\ key.same

\* the tag a branch array carries at user_msg_index, zero padded
TagAt(branch, user_msg_index) ==
    extend_branch_array(branch, user_msg_index + 1)[user_msg_index + 1]

\* the tag that follows cur in the given direction, cyclically
CyclicNeighbour(tags, cur, direction) ==
    LET above == {t \in tags : t > cur}
        below == {t \in tags : t < cur}
        least(S) == CHOOSE x \in S : \A y \in S : x <= y
        greatest(S) == CHOOSE x \in S : \A y \in S : y <= x
    IN  IF direction = 1
        THEN IF above = {} THEN least(tags) ELSE least(above)
        ELSE IF below = {} THEN greatest(tags) ELSE greatest(below)

\* C22: switch_branch from a branch whose tag is among the sibling tags at
\* the index chooses the next tag in the direction, cyclically: +1 from the
\* largest gives the smallest, -1 from the smallest gives the largest, and
\* otherwise the adjacent tag in the sorted distinct tags.
C22_NavigationWraps ==
    [][(ret'.op = "switch_branch" /\ ret'.ok) =>
        LET b == ret'.args[1]
            i == ret'.args[2]
            d == ret'.args[3]
            tags == SiblingTags(files, extend_branch_array(b, i), i)
        IN  TagAt(b, i) \in tags =>
              /\ extend_branch_array(ret'.branch, i) = extend_branch_array(b, i)
              /\ TagAt(ret'.branch, i) = CyclicNeighbour(tags, TagAt(b, i), d)]_vars

\* the spec's example: sibling tags 0, 1, 2; +1 from tag 2 has given tag 0
C22_Witness ==
    /\ ret.op = "switch_branch"
    /\ ret.ok
    /\ SiblingTags(files, <<>>, 0) = {0, 1, 2}
    /\ ret.args = <<<<2>>, 0, 1>>
    /\ ret.branch = <<0>>
    /\ current_branch = <<0>>

\* lexicographic order on branch arrays
RECURSIVE LexLess(_, _)
LexLess(a, b) ==
    IF b = <<>> THEN FALSE
    ELSE IF a = <<>> THEN TRUE
    ELSE \/ Head(a) < Head(b)
         \/ Head(a) = Head(b) /\ LexLess(Tail(a), Tail(b))

\* addresses of the branch records whose first n entries, zero padded, are p
RecordsUnder(fs, p, n) ==
    {a \in {filename_to_branch_array(f) : f \in DOMAIN fs} :
        extend_branch_array(a, n) = p}

\* C23: a successful switch_branch returns the address of an existing branch
\* record, the lexicographically lowest of the records whose zero-padded
\* first user_msg_index + 1 entries are the prefix followed by the chosen
\* tag, and the stored current branch is the returned address afterwards.
C23_SnapToLowest ==
    [][(ret'.op = "switch_branch" /\ ret'.ok) =>
        LET b == ret'.args[1]
            i == ret'.args[2]
            chosen == extend_branch_array(b, i) \o <<ret'.num>>
            under == RecordsUnder(files', chosen, i + 1)
        IN  /\ FKey(ret'.branch) \in DOMAIN files'
            /\ ret'.branch \in under
            /\ \A o \in under : o = ret'.branch \/ LexLess(ret'.branch, o)
            /\ current_branch' = ret'.branch]_vars

\* two records lie under the chosen prefix and the shorter one was returned
C23_Witness ==
    /\ ret.op = "switch_branch"
    /\ ret.ok
    /\ ret.args[2] = 0
    /\ {<<0>>, <<0, 1>>} \subseteq RecordsUnder(files, <<0>>, 1)
    /\ ret.branch = <<0>>
    /\ current_branch = <<0>>

\* the stored messages a returned message list stands for
IdRoleContent(messages) ==
    [i \in 1..Len(messages) |->
        Message(messages[i].id, messages[i].role, messages[i].content)]

\* C24: a successful create_branch leaves the stored current branch equal
\* to the branch it returns, and get_conversation called without a branch
\* returns exactly the messages of the record the stored current branch
\* designates.
C24_PointerFollowsEdit ==
    [][/\ (ret'.op = "create_branch" /\ ret'.ok) => current_branch' = ret'.branch
       /\ (ret'.op = "get_conversation" /\ ret'.ok /\ F_get_conversation(<<>>)) =>
            /\ ret'.branch = current_branch
            /\ FKey(current_branch) \in DOMAIN files
            /\ IdRoleContent(ret'.messages) = files[FKey(current_branch)]]_vars

\* after an edit of user message 0 the read without a branch gives the new branch
C24_Witness ==
    /\ ret.op = "get_conversation"
    /\ ret.ok
    /\ current_branch = <<1>>
    /\ ret.branch = <<1>>
    /\ Len(files[FKey(<<0>>)]) = 2
    /\ IdRoleContent(ret.messages) = files[FKey(<<1>>)]
    /\ Len(ret.messages) = 1

\* 1-indexed rank of tag t among the distinct tags, 1 when t is not among them
RankOf(tags, t) ==
    IF t \in tags THEN Cardinality({u \in tags : u <= t}) ELSE 1

\* C25: get_version_info(branch, user_msg_index) reports total_versions as
\* the number of distinct sibling tags among the branch records sharing the
\* prefix, and current_version as the 1-indexed rank of the branch's own tag
\* among them, 1 when that tag is not among them.
C25_VersionSummary ==
    [][(ret'.op = "get_version_info" /\ convExists) =>
        LET b == ret'.args[1]
            i == ret'.args[2]
            tags == SiblingTags(files, extend_branch_array(b, i), i)
        IN  /\ ret'.total = Cardinality(tags)
            /\ ret'.num = RankOf(tags, TagAt(b, i))]_vars

\* C25, amended: when at least one branch record shares the prefix,
\* total_versions is the number of distinct sibling tags and current_version
\* the 1-indexed rank of the branch's own tag, 1 when that tag is not among
\* them; when no branch record shares the prefix, both are reported as 1.
C25_VersionSummaryOrDefault ==
    [][(ret'.op = "get_version_info" /\ convExists) =>
        LET b == ret'.args[1]
            i == ret'.args[2]
            tags == SiblingTags(files, extend_branch_array(b, i), i)
        IN  IF tags = {}
            THEN ret'.total = 1 /\ ret'.num = 1
            ELSE /\ ret'.total = Cardinality(tags)
                 /\ ret'.num = RankOf(tags, TagAt(b, i))]_vars

\* right after the first edit of user message 0 the new branch is 2 of 2
C25_Witness ==
    /\ ret.op = "get_version_info"
    /\ ret.args = <<<<1>>, 0>>
    /\ DOMAIN files = {FKey(<<0>>), FKey(<<1>>)}
    /\ current_branch = <<1>>
    /\ ret.num = 2
    /\ ret.total = 2

\* file store: the returned user message number n of the branch is numbered
\* by the rank of the branch's tag among the sibling tags at index n
FileRanked(fs, branch, messages) ==
    \A k \in 1..Len(messages) :
        LET m == messages[k]
            n == Cardinality({j \in 1..(k - 1) : messages[j].role = "user"})
            tags == SiblingTags(fs, extend_branch_array(branch, n), n)
        IN  /\ 1 <= m.current_version
            /\ m.current_version <= m.total_versions
            /\ m.role = "user" =>
                  /\ m.current_version = RankOf(tags, TagAt(branch, n))
                  /\ m.total_versions = Cardinality(tags)

\* table store: a returned row is counted against the rows of its position
\* that have its parent, and numbered by the rank of its version among them
TableRanked(rs, messages) ==
    \A k \in 1..Len(messages) :
        LET m == messages[k]
            siblings == {r.version : r \in {q \in RowsAt(rs, m.position) :
                                               q.parent = m.parent}}
        IN  /\ 1 <= m.current_version
            /\ m.current_version <= m.total_versions
            /\ m.current_version = RankOf(siblings, m.version)

\* C26: in both stores every message get_conversation returns carries
\* current_version and total_versions with 1 <= current_version <=
\* total_versions, current_version being the 1-indexed rank of the message's
\* tag among the siblings it is counted against.
C26_VersionIsRank ==
    [][/\ (ret'.op = "get_conversation" /\ ret'.ok) =>
              FileRanked(files, ret'.branch, ret'.messages)
       /\ (tret'.op = "get_conversation" /\ tret'.ok) =>
              TableRanked(rows, tret'.messages)]_vars

\* C27: update_message_content on the file store replaces only the content
\* of the message with the given id: the number and order of the messages
\* of the branch, every other message, the target's id, role and position,
\* every other branch record and the stored current branch are unchanged;
\* it returns false and writes nothing when the conversation, the branch
\* record or the message id is not found, and true otherwise.
C27_UpdateInPlace ==
    [][ret'.op = "update_message_content" =>
        \A c \in Contents, ob \in OptBranchInputs :
          F_update_message_content(ret'.num, c, ob, ret'.streaming) =>
            LET branch == IF ob = <<>> THEN current_branch ELSE ob[1]
                f == FKey(branch)
                present == /\ convExists
                           /\ f \in DOMAIN files
                           /\ \E k \in 1..Len(files[f]) : files[f][k].id = ret'.num
            IN  /\ ret'.ok = present
                /\ current_branch' = current_branch
                /\ convExists' = convExists
                /\ DOMAIN files' = DOMAIN files
                /\ \A g \in DOMAIN files \ {f} : files'[g] = files[g]
                /\ ~present => files' = files
                /\ present =>
                      /\ Len(files'[f]) = Len(files[f])
                      /\ \A k \in 1..Len(files[f]) :
                            IF files[f][k].id = ret'.num
                            THEN files'[f][k] = [files[f][k] EXCEPT !.content = c]
                            ELSE files'[f][k] = files[f][k]]_vars

\* the second of the two messages of the root branch was updated and the
\* first has kept a different content
C27_Witness ==
    /\ ret.op = "update_message_content"
    /\ ret.ok
    /\ ret.num = 2
    /\ FKey(<<0>>) \in DOMAIN files
    /\ Len(files[FKey(<<0>>)]) = 2
    /\ files[FKey(<<0>>)][1].content = "a"
    /\ files[FKey(<<0>>)][2].content = "b"
    /\ current_branch = <<0>>

\* C28: delete_messages_from on the file store, with a position below the
\* message count of the branch, leaves the branch record holding exactly
\* its first position messages, unchanged, returns true and changes no
\* other branch record; with a position at or past the count, a missing
\* branch record or a missing conversation it returns false and changes
\* nothing.
C28_DeleteTruncates ==
    [][ret'.op = "delete_messages_from" =>
        \A p \in 0..MaxPos, ob \in OptBranchInputs :
          F_delete_messages_from(p, ob) =>
            LET branch == IF ob = <<>> THEN current_branch ELSE ob[1]
                f == FKey(branch)
                below == /\ convExists
                         /\ f \in DOMAIN files
                         /\ p < Len(files[f])
            IN  /\ ret'.ok = below
                /\ current_branch' = current_branch
                /\ convExists' = convExists
                /\ ~below => files' = files
                /\ below =>
                      /\ DOMAIN files' = DOMAIN files
                      /\ Len(files'[f]) = p
                      /\ \A k \in 1..p : files'[f][k] = files[f][k]
                      /\ \A g \in DOMAIN files \ {f} : files'[g] = files[g]]_vars

\* a branch record of one message is what a delete from position 1 left,
\* beside another branch record that still has its messages
C28_Witness ==
    /\ ret.op = "delete_messages_from"
    /\ ret.ok
    /\ FKey(<<0>>) \in DOMAIN files
    /\ FKey(<<1>>) \in DOMAIN files
    /\ Len(files[FKey(<<0>>)]) = 1
    /\ Len(files[FKey(<<1>>)]) = 1
    /\ fNextId = 4

\* the number of user messages on a branch record
UserCount(messages) ==
    Cardinality({k \in 1..Len(messages) : messages[k].role = "user"})

\* C29: a create_branch or a retry_assistant_message that fails reports an
\* error, writes no branch record and leaves the stored current branch and
\* every record unchanged; create_branch fails whenever the branch record
\* is missing or has no user message of the given index, and
\* retry_assistant_message whenever the branch record is missing or the
\* position is at or past its message count.
C29_FailedEditsChangeNothing ==
    [][ret'.op \in {"create_branch", "retry_assistant_message"} =>
        /\ ~ret'.ok =>
              /\ ret'.err # ""
              /\ files' = files
              /\ current_branch' = current_branch
              /\ convExists' = convExists
              /\ fNextId' = fNextId
        /\ (ret'.op = "retry_assistant_message" /\ ret'.ok) =>
              /\ FKey(ret'.branch) \in DOMAIN files
              /\ ret'.num < Len(files[FKey(ret'.branch)])
        /\ (ret'.op = "create_branch" /\ ret'.ok) =>
              \A b \in BranchInputs, i \in 0..MaxPos :
                 F_create_branch(b, i, ret'.messages[1].content) =>
                    /\ FKey(b) \in DOMAIN files
                    /\ i < UserCount(files[FKey(b)])]_vars

\* an edit of a user message the branch does not have was refused while the
\* conversation holds two branch records
C29_Witness ==
    /\ ret.op = "create_branch"
    /\ ~ret.ok
    /\ ret.err = "User message not found"
    /\ Cardinality(DOMAIN files) = 2
    /\ current_branch = <<1>>

C31_TitleMatchesFirst ==
    search.op \in {"file_search", "table_search"} =>
        LET r == search.results
            byTitle == {c \in ConvIds : contains(search.query, search.convs[c].title)}
            byText == {c \in ConvIds :
                          \E m \in search.convs[c].messages : contains(search.query, m)}
        IN  /\ {r[i] : i \in 1..Len(r)} = byTitle \cup byText
            /\ \A i, j \in 1..Len(r) : i # j => r[i] # r[j]
            /\ \A i, j \in 1..Len(r) :
                  (r[i] \in byTitle /\ r[j] \notin byTitle) => i < j


\* the age since creation of a pooled session exceeds the time to live
AgeExceedsTtl(ss, c, t) == t - ss[c].created_at > TtlSeconds

\* C32: the pool never holds more than max_sessions entries, and an entry that
\* warm_for_conversation evicts at capacity was last used no later than any
\* entry that survives the call
C32_CapacityAndLru ==
    [][/\ Cardinality(DOMAIN sessions') <= MaxSessions
       /\ (pret'.op = "warm_for_conversation" /\ now' = now
              /\ pret'.evicted # NoId) =>
            /\ pret'.evicted \in DOMAIN sessions
            /\ \A d \in DOMAIN sessions' \ {pret'.id} :
                  /\ d \in DOMAIN sessions
                  /\ sessions[pret'.evicted].last_used <= sessions[d].last_used]_vars

\* a full pool lost its least recently used entry to a new conversation after
\* another entry had been used again
C32_Witness ==
    /\ pret.op = "warm_for_conversation"
    /\ pret.evicted \notin {NoId, pret.id}
    /\ Cardinality(DOMAIN sessions) = MaxSessions
    /\ \E d \in DOMAIN sessions : sessions[d].last_used > sessions[d].created_at

\* C33: get_warm_session returns no session older than ttl_seconds since its
\* creation; such a session is removed and nothing is returned, and an id
\* enters the pool only by warm_for_conversation of that id
C33_NoExpiredSessionReturned ==
    [][/\ (pret'.op = "get_warm_session" /\ now' = now) =>
            /\ pret'.found =>
                  /\ pret'.id \in DOMAIN sessions
                  /\ ~AgeExceedsTtl(sessions, pret'.id, now)
            /\ (pret'.id \in DOMAIN sessions
                    /\ AgeExceedsTtl(sessions, pret'.id, now)) =>
                  /\ ~pret'.found
                  /\ pret'.id \notin DOMAIN sessions'
            /\ pret'.id \notin DOMAIN sessions => ~pret'.found
       /\ \A c \in DOMAIN sessions' \ DOMAIN sessions :
             pret'.op = "warm_for_conversation" /\ pret'.id = c]_vars

\* a session that had been used was found expired and removed
C33_Witness ==
    /\ pret.op = "get_warm_session"
    /\ pret.expired
    /\ ~pret.found
    /\ pret.id \notin DOMAIN sessions
    /\ now > TtlSeconds

\* C34: right after cleanup_stale no session remains whose age since creation
\* exceeds ttl_seconds, the age at which get_warm_session reports expiry
C34_CleanupLeavesNoExpired ==
    [][(pret'.op = "cleanup_stale" /\ now' = now) =>
          \A c \in DOMAIN sessions' : ~AgeExceedsTtl(sessions', c, now')]_vars

\* C40: warm_for_conversation of an id that is in the pool leaves every other
\* session in place that is younger than ttl_seconds
C40_RewarmKeepsOthers ==
    [][(pret'.op = "warm_for_conversation" /\ now' = now
            /\ pret'.id \in DOMAIN sessions) =>
          \A c \in DOMAIN sessions \ {pret'.id} :
              now - sessions[c].created_at < TtlSeconds =>
                  /\ c \in DOMAIN sessions'
                  /\ sessions'[c] = sessions[c]]_vars

\* C35: two tasks that hold the lock of one conversation hold the same lock
\* object, tasks of different conversations hold different ones, and at most
\* one task is inside the guarded section of a conversation
C35_OneLockPerConversation ==
    \A t1, t2 \in Tasks :
        (t1 # t2 /\ tasks[t1].pc # "idle" /\ tasks[t2].pc # "idle") =>
            /\ (tasks[t1].id = tasks[t2].id) = (tasks[t1].lock = tasks[t2].lock)
            /\ tasks[t1].id = tasks[t2].id =>
                  ~(tasks[t1].pc = "inside" /\ tasks[t2].pc = "inside")

\* C36: while a handler of the conversation is running the registry reports
\* the conversation as streaming, and when the handler started last is a
\* running agent handler, stop_stream succeeds and sets the stop event of
\* that handler
C36_RegistryFollowsHandlers ==
    \A h \in Handlers :
        Running(handlers[h]) =>
            /\ get_status(streams, HConv).streaming
            /\ (handlers[h].kind = "agent"
                   /\ \A g \in Handlers : handlers[g].order <= handlers[h].order) =>
                  /\ can_stop(streams, HConv)
                  /\ streams[HConv].stop_event = handlers[h].stop_event

\* C37: the handler that consumes a steer context was not running when a
\* steer request that stored a context arrived: the guidance goes to a
\* stream started afterwards, never to a stream the request interrupted
C37_SteerReachesNextStream ==
    [][\A h \in Handlers :
         (handlers[h].pc = "steer" /\ handlers'[h].pc = "streaming"
             /\ handlers'[h].steer # NoContext) =>
            ~handlers[h].steered]_vars

\* C38: the stored current branch of a conversation is the address of a
\* branch record that exists, also after a create_branch that failed
\* between the write of its record and the update of the pointer
C38_PointerIsMaterialized ==
    convExists => branch_array_to_filename(current_branch) \in DOMAIN files

\* a create_branch failed after it had written its record: the record is
\* there and the pointer still designates the branch it designated before
C38_Witness ==
    /\ ret.op = "create_branch"
    /\ ret.err = "interrupted"
    /\ branch_array_to_filename(ret.branch) \in DOMAIN files
    /\ branch_array_to_filename(current_branch) # branch_array_to_filename(ret.branch)
    /\ current_branch # <<0>>

\* C39: no two rows of the conversation carry the same position and the
\* same version, whatever way concurrent edit_message and retry_message
\* calls interleave
C39_VersionTagsUnique ==
    \A m, n \in rows :
        (m.position = n.position /\ m.version = n.version) => m = n
====
